---------------------------- MODULE Spec2Model ----------------------------
(***************************************************************************)
(* Model of the service layer of the visitor-management backend:           *)
(*   VisitorService (create, update, destroyAll, import, reads) and        *)
(*   AuthService    (signup, signin, handleOnboard, findByToken).          *)
(* Every request is a process; a process moves from one awaited call to    *)
(* the next, so one action is one awaited persistence/transaction call     *)
(* together with the synchronous code that follows it.                     *)
(* The persistence adapter and the transaction coordinator                 *)
(* (VisitorRepository, UserRepository, SequelizeRepository, TenantService) *)
(* are not part of the sources at hand; they are modelled after their      *)
(* contract: writes issued with a transaction are buffered in that         *)
(* transaction and reach the store atomically at commit, reads without a   *)
(* transaction see the committed store.                                    *)
(***************************************************************************)
EXTENDS Integers, Sequences, FiniteSets, TLC

(***************************************************************************)
(* Bounds                                                                  *)
(***************************************************************************)
\* largest visitor id: the ids callers name and the ids create generates
MaxId == 3
\* longest id list handed to destroyAll
MaxIds == 2
\* most writes a caller issues inside a unit of work it drives itself
MaxWrites == 2

\* the requests in flight; each is one call of a service operation
Procs == {1, 2}
Ids == 1 .. MaxId

(***************************************************************************)
(* Values                                                                  *)
(***************************************************************************)
\* JavaScript null / undefined / "" : the falsy values an import hash can take
JsNull == "<null>"
JsUndefined == "<undefined>"
EmptyString == ""
Hashes == {"H1", "H2"}
\* values of the unique field of a visitor
UniqueValues == {"a", "b", "c"}

\* `!importHash' of VisitorService.import
Falsy(v) == v \in {JsNull, JsUndefined, EmptyString}

\* createdAt, updatedAt: the timestamps the persistence adapter writes; a row
\* that was in the database before the requests carries Epoch, a row written
\* by a request carries Now
Epoch == "epoch"
Now == "now"
NoRow == [id |-> 0, uniqueField |-> "none", importHash |-> JsUndefined,
          createdAt |-> "none", updatedAt |-> "none"]
NoData == [uniqueField |-> "none", importHash |-> JsUndefined]
\* the data a caller may hand to create and import, and to update
DataValues == [uniqueField : UniqueValues, importHash : {JsUndefined, "H1"}]
UpdateValues == [uniqueField : UniqueValues, importHash : {JsUndefined}]
\* the import hashes a caller may hand to import
ImportHashes == Hashes \cup {JsNull, JsUndefined, EmptyString}
\* what a caller may hand to findAllAutocomplete(search, limit) and, as the
\* filter on the import hash, to findAndCountAll({filter})
Searches == UniqueValues \cup {JsUndefined}
Limits == {1, 2}
Filters == {JsUndefined, "H1"}

RECURSIVE SeqsUpTo(_, _)
SeqsUpTo(S, n) ==
  IF n = 0 THEN {<<>>}
  ELSE LET shorter == SeqsUpTo(S, n - 1)
       IN shorter \cup {Append(s, x) : s \in shorter, x \in S}
\* the id lists a caller may hand to destroyAll
IdLists == SeqsUpTo(Ids, MaxIds)

\* errors: kind is the class of the error, key its message key (a dotted path)
NoError == [kind |-> "none", key |-> <<>>]
DatabaseError == [kind |-> "SequelizeDatabaseError", key |-> <<>>]
UniqueConstraintError(f) == [kind |-> "SequelizeUniqueConstraintError", key |-> <<f>>]
Error400(key) == [kind |-> "Error400", key |-> key]
Error404 == [kind |-> "Error404", key |-> <<>>]
\* the failure of the external collaborator of sdpService
SdpError == [kind |-> "WebSocketError", key |-> <<>>]

\* the visitors the database starts with
InitialStore ==
  (1 :> [id |-> 1, uniqueField |-> "a", importHash |-> JsUndefined,
         createdAt |-> Epoch, updatedAt |-> Epoch])

\* users: an invited user has a row without password
NoPassword == [alg |-> "none", of |-> "none"]
NoUser == [id |-> 0, email |-> "none", password |-> NoPassword]
\* jwt.sign({id}, AUTH_JWT_SECRET, {expiresIn})
NoToken == [payload |-> [id |-> 0], signed |-> FALSE]
JwtSign(payload) == [payload |-> payload, signed |-> TRUE]
\* bcrypt.hash and bcrypt.compare
BcryptHash(password) == [alg |-> "bcrypt", of |-> password]
BcryptCompare(password, hash) == hash = BcryptHash(password)

\* the users and memberships the database starts with: user 1 was invited to
\* tenant "t1" and has not signed up, user 2 has signed up
InitialUsers ==
  (1 :> [id |-> 1, email |-> "invited@x", password |-> NoPassword])
  @@ (2 :> [id |-> 2, email |-> "known@x", password |-> BcryptHash("pw1")])
InitialMembers == {[userId |-> 2, tenantId |-> "t1", role |-> "visitor", via |-> "join"]}

\* what a caller may hand to signup and signin
Emails == {"invited@x", "known@x", "new@x"}
Passwords == {"pw1", "pw2"}
InvitationTokens == {JsUndefined, "tok"}
TenantIds == {JsUndefined, "t1"}
\* invitationToken and tenantId are read by handleOnboard only: they are drawn
\* when handleOnboard is entered
AuthArgs == [email : Emails, password : Passwords,
             invitationToken : {JsUndefined}, tenantId : {JsUndefined}]
\* getConfig().TENANT_MODE ("none": anything else) and EmailSender.isConfigured
TenantModes == {"multi", "multi-with-subdomain", "single", "none"}
Configs == [TENANT_MODE : TenantModes, isConfigured : BOOLEAN]
EmailError == [kind |-> "EmailSenderError", key |-> <<>>]

\* the errors of jwt.verify
JsonWebTokenError(message) == [kind |-> "JsonWebTokenError", key |-> <<message>>]
TokenExpiredError == [kind |-> "TokenExpiredError", key |-> <<"jwt expired">>]
\* jwt.verify(token, AUTH_JWT_SECRET, callback): the err of the callback,
\* NoError when the token decodes, carries the signature of the secret and has
\* not expired; t says what the caller presents: the token, whether the string
\* is no JWT at all, and whether its expiry time has passed
JwtVerify(t) ==
  IF t.malformed THEN JsonWebTokenError("jwt malformed")
  ELSE IF ~t.token.signed THEN JsonWebTokenError("invalid signature")
  ELSE IF t.expired THEN TokenExpiredError
  ELSE NoError
\* the tokens a caller may present to findByToken: tokens signed for the known
\* user and for a user id that is not in the database at the start, and a
\* token for the known user that carries another signature
PresentedTokens ==
  [token : {JwtSign([id |-> 2]), JwtSign([id |-> 3]),
            [payload |-> [id |-> 2], signed |-> FALSE]},
   malformed : BOOLEAN, expired : BOOLEAN]
TenantError == [kind |-> "TenantServiceError", key |-> <<>>]

importHashRequired == <<"importer", "errors", "importHashRequired">>
importHashExistent == <<"importer", "errors", "importHashExistent">>

(***************************************************************************)
(* State                                                                   *)
(***************************************************************************)
VARIABLES
  store,      \* committed visitor rows: id -> row
  nextId,     \* next visitor id to generate
  pc,         \* pc[p]: where request p stands
  op,         \* op[p]: the service operation p was called with
  args,       \* args[p]: its arguments
  tx,         \* tx[p]: "none", "open", "committed", "rolled-back"
  txOpened,   \* txOpened[p]: transactions opened by the current call
  txLate,     \* txLate[p]: a call was issued against a finished transaction
  pending,    \* pending[p]: writes buffered in p's transaction, in issue order
  idx,        \* idx[p]: position of destroyAll in ids
  record,     \* record[p]: the row returned by the repository
  error,      \* error[p]: the error caught by the catch block
  returned,   \* returned[p]: value the call returned (NoRow if none)
  thrown,     \* thrown[p]: error the call threw (NoError if none)
  sdpSent,    \* rows handed to sdpService, in order
  sdpFailed,  \* number of notifications whose delivery failed
  service,    \* the service the requests are addressed to
  config,     \* getConfig().TENANT_MODE and EmailSender.isConfigured
  users,      \* committed user rows: id -> row
  members,    \* committed tenant memberships
  nextUserId, \* next user id to generate
  user,       \* user[p]: the user row the call works on
  token,      \* token[p]: the token the call returned (NoToken if none)
  steps       \* steps[p]: the onboarding steps the call has performed

vars == <<store, nextId, pc, op, args, tx, txOpened, txLate, pending, idx,
          record, error, returned, thrown, sdpSent, sdpFailed,
          service, config, users, members, nextUserId, user, token, steps>>

\* what VisitorService never touches, and what AuthService never touches
authLocal == <<service, config, nextUserId, user, token, steps>>
authVars == <<authLocal, users, members>>
visitorLocal == <<nextId, idx, record, returned, sdpSent, sdpFailed>>
visitorVars == <<visitorLocal, store>>

Terminal == {"committed", "rolled-back"}

\* data: the data create works on; importData: the data import was called with
NoArgs == [id |-> 0, data |-> NoData, importData |-> NoData, ids |-> <<>>,
           importHash |-> JsUndefined, newId |-> 0, search |-> JsUndefined, limit |-> 0, filter |-> JsUndefined]

(***************************************************************************)
(* Persistence adapter (VisitorRepository) and its constraints             *)
(***************************************************************************)
Insert(id, row) == [t |-> "insert", id |-> id, row |-> row]
Update(id, row) == [t |-> "update", id |-> id, row |-> row]
Destroy(id) == [t |-> "destroy", id |-> id, row |-> NoRow]

ApplyWrite(s, w) ==
  CASE w.t = "insert" ->
         [i \in DOMAIN s \cup {w.id} |-> IF i = w.id THEN w.row ELSE s[i]]
    [] w.t = "update" ->
         IF w.id \in DOMAIN s THEN [s EXCEPT ![w.id] = w.row] ELSE s
    [] w.t = "destroy" ->
         [i \in DOMAIN s \ {w.id} |-> s[i]]
    [] OTHER -> s

RECURSIVE ApplyWrites(_, _)
ApplyWrites(s, ws) ==
  IF ws = <<>> THEN s ELSE ApplyWrites(ApplyWrite(s, Head(ws)), Tail(ws))

\* what the statements of p's transaction see: the store and p's own writes
View(p) == ApplyWrites(store, pending[p])

\* UniqueConflict of a table that has no unique index on importHash
UniqueConflict_NoHashIndex(s, id, row) ==
  IF \E j \in DOMAIN s : j # id /\ s[j].uniqueField = row.uniqueField
    THEN "uniqueField"
    ELSE "none"

\* the unique field some other row of s already holds, "none" if there is none
UniqueConflict(s, id, row) ==
  IF \E j \in DOMAIN s : j # id /\ s[j].uniqueField = row.uniqueField
    THEN "uniqueField"
  ELSE IF \E j \in DOMAIN s : j # id /\ ~Falsy(row.importHash)
                                 /\ s[j].importHash = row.importHash
    THEN "importHash"
  ELSE "none"

UniqueOK(s) == \A i \in DOMAIN s : UniqueConflict(s, i, s[i]) = "none"

\* VisitorRepository.count({importHash})
Count(importHash) ==
  Cardinality({i \in DOMAIN store : store[i].importHash = importHash})

\* the rows of s with their ids in ids, by ascending id
RECURSIVE RowsOf(_, _)
RowsOf(s, ids) ==
  IF ids = {} THEN <<>>
  ELSE LET i == CHOOSE x \in ids : \A y \in ids : x <= y
       IN <<s[i]>> \o RowsOf(s, ids \ {i})

\* VisitorRepository.findById(id): the row, null (NoRow) when there is none
FindByIdRow(id) == IF id \in DOMAIN store THEN store[id] ELSE NoRow

\* VisitorRepository.findAllAutocomplete(search, limit): {id, label} of at most
\* limit rows that match search, every row when search is undefined; items
\* holds the array that is returned
FindAllAutocompleteRows(search, limit) ==
  LET rows == RowsOf(store, {i \in DOMAIN store :
                               search = JsUndefined \/ store[i].uniqueField = search})
      n == IF Len(rows) < limit THEN Len(rows) ELSE limit
  IN [items |-> [k \in 1 .. n |-> [id |-> rows[k].id, label |-> rows[k].uniqueField]]]

\* VisitorRepository.findAndCountAll({filter}): the rows that match and their number
FindAndCountAllRows(filter) ==
  LET ids == {i \in DOMAIN store :
                filter = JsUndefined \/ store[i].importHash = filter}
  IN [rows |-> RowsOf(store, ids), count |-> Cardinality(ids)]

(***************************************************************************)
(* Persistence adapter of the users (UserRepository) and of the tenant     *)
(* memberships (TenantUserRepository, TenantService)                       *)
(***************************************************************************)
CreateFromAuth(id, row) == [t |-> "createFromAuth", id |-> id, row |-> row]
UpdatePassword(id, row) == [t |-> "updatePassword", id |-> id, row |-> row]
Join(id, row) == [t |-> "join", id |-> id, row |-> row]

ApplyUserWrite(u, w) ==
  CASE w.t = "createFromAuth" ->
         [i \in DOMAIN u \cup {w.id} |-> IF i = w.id THEN w.row ELSE u[i]]
    [] w.t = "updatePassword" ->
         IF w.id \in DOMAIN u THEN [u EXCEPT ![w.id].password = w.row.password] ELSE u
    [] OTHER -> u

RECURSIVE ApplyUserWrites(_, _)
ApplyUserWrites(u, ws) ==
  IF ws = <<>> THEN u ELSE ApplyUserWrites(ApplyUserWrite(u, Head(ws)), Tail(ws))

UsersView(p) == ApplyUserWrites(users, pending[p])

\* the memberships the writes of a transaction add
MembersView(p) ==
  members \cup {pending[p][k].row : k \in {j \in DOMAIN pending[p] : pending[p][j].t = "join"}}

\* the email of a user is unique
UsersUniqueOK(u) == \A i, j \in DOMAIN u : i # j => u[i].email # u[j].email

(***************************************************************************)
(* Transaction coordinator (SequelizeRepository)                           *)
(***************************************************************************)
\* an operation issued against tx[p]; it is late when the transaction is over
Late(p) == [txLate EXCEPT ![p] = @ \/ tx[p] \in Terminal]

\* SequelizeRepository.createTransaction
CreateTransaction(p) ==
  /\ tx' = [tx EXCEPT ![p] = "open"]
  /\ txOpened' = [txOpened EXCEPT ![p] = @ + 1]
  /\ pending' = [pending EXCEPT ![p] = <<>>]

\* SequelizeRepository.commitTransaction, when it succeeds
CommitTransaction(p) ==
  /\ tx[p] = "open"
  /\ UniqueOK(View(p))
  /\ UsersUniqueOK(UsersView(p))
  /\ store' = View(p)
  /\ users' = UsersView(p)
  /\ members' = MembersView(p)
  /\ tx' = [tx EXCEPT ![p] = "committed"]
  /\ pending' = [pending EXCEPT ![p] = <<>>]
  /\ txLate' = Late(p)

\* the error of a commit that fails
CommitFailure(p) ==
  IF ~UsersUniqueOK(UsersView(p)) THEN {UniqueConstraintError("email")}
  ELSE IF UniqueOK(View(p)) THEN {DatabaseError}
  ELSE {UniqueConstraintError(UniqueConflict(View(p), w.id, w.row)) :
          w \in {pending[p][k] : k \in DOMAIN pending[p]}} \ {UniqueConstraintError("none")}

\* RollbackTransaction that turns a unit of work that is over into an open one
RollbackTransaction_Reopen(p) ==
  /\ tx' = [tx EXCEPT ![p] = IF @ = "open" THEN "rolled-back" ELSE "open"]
  /\ pending' = [pending EXCEPT ![p] = <<>>]
  /\ txLate' = Late(p)

\* SequelizeRepository.rollbackTransaction: discards the writes of the scope
RollbackTransaction(p) ==
  /\ tx' = [tx EXCEPT ![p] = IF @ = "open" THEN "rolled-back" ELSE @]
  /\ pending' = [pending EXCEPT ![p] = <<>>]
  /\ txLate' = Late(p)

\* SequelizeRepository.handleUniqueFieldError: throws Error400 for a
\* uniqueness violation, returns for anything else (NoError: nothing thrown)
HandleUniqueFieldError(e, entityName) ==
  IF e.kind = "SequelizeUniqueConstraintError"
    THEN Error400(<<"entities", entityName, "errors", "unique">> \o e.key)
    ELSE NoError

(***************************************************************************)
(* sdpService                                                              *)
(***************************************************************************)
\* sdpService(record): logs, opens the socket and returns; nothing is awaited
\* and nothing is thrown to the caller
SdpService(r) == sdpSent' = Append(sdpSent, r.id)

\* the socket fails later, outside of every call
SdpDeliveryFails ==
  /\ sdpFailed < Len(sdpSent)
  /\ sdpFailed' = sdpFailed + 1
  /\ UNCHANGED <<store, nextId, pc, op, args, tx, txOpened, txLate, pending,
                 idx, record, error, returned, thrown, sdpSent,
                 authVars>>

(***************************************************************************)
(* VisitorService                                                          *)
(***************************************************************************)
\* the catch block is entered with error e
Catch(p, e) ==
  /\ error' = [error EXCEPT ![p] = e]
  /\ pc' = [pc EXCEPT ![p] = "rollback"]

Return(p, r) ==
  /\ pc' = [pc EXCEPT ![p] = "done"]
  /\ returned' = [returned EXCEPT ![p] = r]

Throw(p, e) ==
  /\ pc' = [pc EXCEPT ![p] = "done"]
  /\ thrown' = [thrown EXCEPT ![p] = e]

\* the requests are numbered in the order in which the first ones arrive
InOrder(p) == \A q \in Procs : q < p => pc[q] # "idle"

\* request p enters operation o with arguments a
Enter(p, o, a, to, e) ==
  /\ service = "VisitorService"
  /\ pc[p] = "idle"
  /\ InOrder(p)
  /\ op' = [op EXCEPT ![p] = o]
  /\ args' = [args EXCEPT ![p] = a]
  /\ pc' = [pc EXCEPT ![p] = to]
  /\ tx' = [tx EXCEPT ![p] = "none"]
  /\ txOpened' = [txOpened EXCEPT ![p] = 0]
  /\ txLate' = [txLate EXCEPT ![p] = FALSE]
  /\ pending' = [pending EXCEPT ![p] = <<>>]
  /\ idx' = [idx EXCEPT ![p] = 1]
  /\ record' = [record EXCEPT ![p] = NoRow]
  /\ error' = [error EXCEPT ![p] = NoError]
  /\ returned' = [returned EXCEPT ![p] = NoRow]
  /\ thrown' = [thrown EXCEPT ![p] = e]

\* create(data) is called
CallCreate(p) ==
  /\ nextId <= MaxId
  /\ nextId' = nextId + 1
  /\ \E d \in DataValues :
       Enter(p, "create", [NoArgs EXCEPT !.data = d, !.newId = nextId],
             "createTransaction", NoError)
  /\ UNCHANGED <<store, sdpSent, sdpFailed,
                 authVars>>

\* create, update, destroyAll: const transaction = await createTransaction()
OpenTransaction(p) ==
  /\ pc[p] = "createTransaction"
  /\ CreateTransaction(p)
  /\ pc' = [pc EXCEPT ![p] =
              CASE op[p] = "update" -> "update"
                [] op[p] = "destroyAll" -> "destroy"
                [] op[p] \in {"signup", "signin"} -> "findByEmail"
                [] OTHER -> "create"]
  /\ UNCHANGED <<store, nextId, op, args, txLate, idx, record, error,
                 returned, thrown, sdpSent, sdpFailed,
                 authVars>>

\* CreateInsert with the import hash of data left out of the row
CreateInsert_DropImportHash(p) ==
  /\ pc[p] = "create"
  /\ LET row == [id |-> args[p].newId,
                 uniqueField |-> args[p].data.uniqueField,
                 importHash |-> JsUndefined,
                 createdAt |-> Now, updatedAt |-> Now]
         c == UniqueConflict(View(p), row.id, row)
     IN \/ /\ c = "none"
           /\ pending' = [pending EXCEPT ![p] = Append(@, Insert(row.id, row))]
           /\ record' = [record EXCEPT ![p] = row]
           /\ pc' = [pc EXCEPT ![p] = "commit"]
           /\ UNCHANGED error
        \/ /\ \E e \in {DatabaseError} \cup
                       (IF c = "none" THEN {} ELSE {UniqueConstraintError(c)}) :
                error' = [error EXCEPT ![p] = e]
           /\ pc' = [pc EXCEPT ![p] = "rollback"]
           /\ UNCHANGED <<pending, record>>
  /\ txLate' = Late(p)
  /\ UNCHANGED <<store, nextId, op, args, tx, txOpened, idx, returned, thrown,
                 sdpSent, sdpFailed, authVars>>

\* create: record = await VisitorRepository.create(data, {transaction})
CreateInsert(p) ==
  /\ pc[p] = "create"
  /\ LET row == [id |-> args[p].newId,
                 uniqueField |-> args[p].data.uniqueField,
                 importHash |-> args[p].data.importHash,
                 createdAt |-> Now, updatedAt |-> Now]
         c == UniqueConflict(View(p), row.id, row)
     IN \/ /\ c = "none"
           /\ pending' = [pending EXCEPT ![p] = Append(@, Insert(row.id, row))]
           /\ record' = [record EXCEPT ![p] = row]
           /\ pc' = [pc EXCEPT ![p] = "commit"]
           /\ UNCHANGED error
        \/ /\ \E e \in {DatabaseError} \cup
                       (IF c = "none" THEN {} ELSE {UniqueConstraintError(c)}) :
                error' = [error EXCEPT ![p] = e]
           /\ pc' = [pc EXCEPT ![p] = "rollback"]
           /\ UNCHANGED <<pending, record>>
  /\ txLate' = Late(p)
  /\ UNCHANGED <<store, nextId, op, args, tx, txOpened, idx, returned, thrown,
                 sdpSent, sdpFailed,
                 authVars>>

\* CreateCommit with a notification whose failure is thrown into the try block
CreateCommit_AwaitSdp(p) ==
  /\ pc[p] = "commit"
  /\ op[p] \in {"create", "import"}
  /\ \/ /\ CommitTransaction(p)
        /\ SdpService(record[p])
        /\ Return(p, record[p])
        /\ UNCHANGED <<error, thrown>>
     \/ /\ CommitTransaction(p)
        /\ SdpService(record[p])
        /\ Catch(p, SdpError)
        /\ UNCHANGED <<returned, thrown>>
     \/ /\ \E e \in CommitFailure(p) : Catch(p, e)
        /\ txLate' = Late(p)
        /\ UNCHANGED <<store, users, members, tx, pending, returned, thrown, sdpSent>>
  /\ UNCHANGED <<nextId, op, args, txOpened, idx, record, sdpFailed,
                 authLocal>>

\* CreateCommit with sdpService(record) called before the commit is awaited
CreateCommit_NotifyBeforeCommit(p) ==
  /\ pc[p] = "commit"
  /\ op[p] \in {"create", "import"}
  /\ SdpService(record[p])
  /\ \/ /\ CommitTransaction(p)
        /\ Return(p, record[p])
        /\ UNCHANGED <<error, thrown>>
     \/ /\ \E e \in CommitFailure(p) : error' = [error EXCEPT ![p] = e]
        /\ pc' = [pc EXCEPT ![p] = "rollback"]
        /\ txLate' = Late(p)
        /\ UNCHANGED <<store, users, members, tx, pending, returned, thrown>>
  /\ UNCHANGED <<nextId, op, args, txOpened, idx, record, sdpFailed,
                 authLocal>>

\* create: await commitTransaction(); sdpService(record); return record
CreateCommit(p) ==
  /\ pc[p] = "commit"
  /\ op[p] \in {"create", "import"}
  /\ \/ /\ CommitTransaction(p)
        /\ SdpService(record[p])
        /\ Return(p, record[p])
        /\ UNCHANGED <<error, thrown>>
     \/ /\ \E e \in CommitFailure(p) : error' = [error EXCEPT ![p] = e]
        /\ pc' = [pc EXCEPT ![p] = "rollback"]
        /\ txLate' = Late(p)
        /\ UNCHANGED <<store, users, members, tx, pending, returned, thrown, sdpSent>>
  /\ UNCHANGED <<nextId, op, args, txOpened, idx, record, sdpFailed,
                 authLocal>>

\* CatchRollback without the rollback
CatchRollback_NoRollback(p) ==
  /\ pc[p] = "rollback"
  /\ op[p] \in {"create", "import", "update"}
  /\ pc' = [pc EXCEPT ![p] = "handleUniqueFieldError"]
  /\ UNCHANGED <<store, nextId, op, args, tx, txOpened, txLate, pending, idx,
                 record, error, returned, thrown, sdpSent, sdpFailed,
                 authVars>>

\* CatchRollback with handleUniqueFieldError called before the rollback: the
\* Error400 it throws leaves the catch block at once
CatchRollback_ClassifyFirst(p) ==
  /\ pc[p] = "rollback"
  /\ op[p] \in {"create", "import", "update"}
  /\ LET e == HandleUniqueFieldError(error[p], "visitor")
     IN IF e # NoError
          THEN /\ Throw(p, e)
               /\ UNCHANGED <<tx, pending, txLate>>
          ELSE /\ RollbackTransaction(p)
               /\ pc' = [pc EXCEPT ![p] = "handleUniqueFieldError"]
               /\ UNCHANGED thrown
  /\ UNCHANGED <<store, nextId, op, args, txOpened, idx, record, error,
                 returned, sdpSent, sdpFailed, authVars>>

\* create, update: catch (error) { await rollbackTransaction() ...
CatchRollback(p) ==
  /\ pc[p] = "rollback"
  /\ op[p] \in {"create", "import", "update"}
  /\ RollbackTransaction(p)
  /\ pc' = [pc EXCEPT ![p] = "handleUniqueFieldError"]
  /\ UNCHANGED <<store, nextId, op, args, txOpened, idx, record, error,
                 returned, thrown, sdpSent, sdpFailed,
                 authVars>>

\* CatchClassify without the final `throw error': what is no uniqueness
\* violation is swallowed and the call returns undefined
CatchClassify_Swallow(p) ==
  /\ pc[p] = "handleUniqueFieldError"
  /\ LET e == HandleUniqueFieldError(error[p], "visitor")
     IN IF e # NoError
          THEN Throw(p, e) /\ UNCHANGED returned
          ELSE Return(p, NoRow) /\ UNCHANGED thrown
  /\ UNCHANGED <<store, nextId, op, args, tx, txOpened, txLate, pending, idx,
                 record, error, sdpSent, sdpFailed, authVars>>

\* CatchClassify without the call of handleUniqueFieldError
CatchClassify_Rethrow(p) ==
  /\ pc[p] = "handleUniqueFieldError"
  /\ Throw(p, error[p])
  /\ UNCHANGED <<store, nextId, op, args, tx, txOpened, txLate, pending, idx,
                 record, error, returned, sdpSent, sdpFailed, authVars>>

\* ... handleUniqueFieldError(error, language, 'visitor'); throw error }
CatchClassify(p) ==
  /\ pc[p] = "handleUniqueFieldError"
  /\ LET e == HandleUniqueFieldError(error[p], "visitor")
     IN Throw(p, IF e # NoError THEN e ELSE error[p])
  /\ UNCHANGED <<store, nextId, op, args, tx, txOpened, txLate, pending, idx,
                 record, error, returned, sdpSent, sdpFailed,
                 authVars>>

\* update(id, data) is called
CallUpdate(p) ==
  /\ \E i \in Ids, d \in UpdateValues :
       Enter(p, "update", [NoArgs EXCEPT !.id = i, !.data = d],
             "createTransaction", NoError)
  /\ UNCHANGED <<store, nextId, sdpSent, sdpFailed,
                 authVars>>

\* update: record = await VisitorRepository.update(id, data, {transaction})
UpdateRow(p) ==
  /\ pc[p] = "update"
  /\ LET v == View(p)
         i == args[p].id
         row == [id |-> i,
                 uniqueField |-> args[p].data.uniqueField,
                 importHash |-> IF args[p].data.importHash = JsUndefined
                                  THEN v[i].importHash
                                  ELSE args[p].data.importHash,
                 createdAt |-> v[i].createdAt, updatedAt |-> Now]
         c == IF i \in DOMAIN v THEN UniqueConflict(v, i, row) ELSE "none"
     IN \/ /\ i \in DOMAIN v
           /\ c = "none"
           /\ pending' = [pending EXCEPT ![p] = Append(@, Update(i, row))]
           /\ record' = [record EXCEPT ![p] = row]
           /\ pc' = [pc EXCEPT ![p] = "commit"]
           /\ UNCHANGED error
        \/ /\ \E e \in {DatabaseError}
                       \cup (IF i \in DOMAIN v THEN {} ELSE {Error404})
                       \cup (IF c = "none" THEN {} ELSE {UniqueConstraintError(c)}) :
                error' = [error EXCEPT ![p] = e]
           /\ pc' = [pc EXCEPT ![p] = "rollback"]
           /\ UNCHANGED <<pending, record>>
  /\ txLate' = Late(p)
  /\ UNCHANGED <<store, nextId, op, args, tx, txOpened, idx, returned, thrown,
                 sdpSent, sdpFailed,
                 authVars>>

\* update: await commitTransaction(); return record
UpdateCommit(p) ==
  /\ pc[p] = "commit"
  /\ op[p] = "update"
  /\ \/ /\ CommitTransaction(p)
        /\ Return(p, record[p])
        /\ UNCHANGED <<error, thrown>>
     \/ /\ \E e \in CommitFailure(p) : error' = [error EXCEPT ![p] = e]
        /\ pc' = [pc EXCEPT ![p] = "rollback"]
        /\ txLate' = Late(p)
        /\ UNCHANGED <<store, users, members, tx, pending, returned, thrown>>
  /\ UNCHANGED <<nextId, op, args, txOpened, idx, record, sdpSent, sdpFailed,
                 authLocal>>

\* destroyAll(ids) is called
CallDestroyAll(p) ==
  /\ \E ids \in IdLists :
       Enter(p, "destroyAll", [NoArgs EXCEPT !.ids = ids],
             "createTransaction", NoError)
  /\ UNCHANGED <<store, nextId, sdpSent, sdpFailed,
                 authVars>>

\* DestroyOne with the transaction left out of the options of destroy
DestroyOne_NoTransaction(p) ==
  /\ pc[p] = "destroy"
  /\ idx[p] <= Len(args[p].ids)
  /\ LET i == args[p].ids[idx[p]]
     IN \/ /\ i \in DOMAIN store
           /\ store' = ApplyWrite(store, Destroy(i))
           /\ idx' = [idx EXCEPT ![p] = @ + 1]
           /\ UNCHANGED <<error, pc>>
        \/ /\ \E e \in {DatabaseError}
                       \cup (IF i \in DOMAIN store THEN {} ELSE {Error404}) :
                Catch(p, e)
           /\ UNCHANGED <<store, idx>>
  /\ UNCHANGED <<nextId, op, args, tx, txOpened, txLate, pending, record,
                 returned, thrown, sdpSent, sdpFailed, authVars>>

\* DestroyOne in a loop that skips a deletion that fails and goes on
DestroyOne_ContinueAfterFailure(p) ==
  /\ pc[p] = "destroy"
  /\ idx[p] <= Len(args[p].ids)
  /\ LET i == args[p].ids[idx[p]]
     IN \/ /\ i \in DOMAIN View(p)
           /\ pending' = [pending EXCEPT ![p] = Append(@, Destroy(i))]
        \/ UNCHANGED pending
  /\ idx' = [idx EXCEPT ![p] = @ + 1]
  /\ txLate' = Late(p)
  /\ UNCHANGED <<store, nextId, pc, op, args, tx, txOpened, record, error,
                 returned, thrown, sdpSent, sdpFailed, authVars>>

\* DestroyOne in a loop that stands before the try block: a deletion that
\* fails is thrown to the caller past the catch block
DestroyOne_OutsideTry(p) ==
  /\ pc[p] = "destroy"
  /\ idx[p] <= Len(args[p].ids)
  /\ LET i == args[p].ids[idx[p]]
     IN \/ /\ i \in DOMAIN View(p)
           /\ pending' = [pending EXCEPT ![p] = Append(@, Destroy(i))]
           /\ idx' = [idx EXCEPT ![p] = @ + 1]
           /\ UNCHANGED <<error, pc, thrown>>
        \/ /\ \E e \in {DatabaseError}
                       \cup (IF i \in DOMAIN View(p) THEN {} ELSE {Error404}) :
                Throw(p, e)
           /\ UNCHANGED <<pending, idx, error>>
  /\ txLate' = Late(p)
  /\ UNCHANGED <<store, nextId, op, args, tx, txOpened, record, returned,
                 sdpSent, sdpFailed, authVars>>

\* destroyAll: for (const id of ids) await VisitorRepository.destroy(id, {transaction})
DestroyOne(p) ==
  /\ pc[p] = "destroy"
  /\ idx[p] <= Len(args[p].ids)
  /\ LET i == args[p].ids[idx[p]]
     IN \/ /\ i \in DOMAIN View(p)
           /\ pending' = [pending EXCEPT ![p] = Append(@, Destroy(i))]
           /\ idx' = [idx EXCEPT ![p] = @ + 1]
           /\ UNCHANGED <<error, pc>>
        \/ /\ \E e \in {DatabaseError}
                       \cup (IF i \in DOMAIN View(p) THEN {} ELSE {Error404}) :
                error' = [error EXCEPT ![p] = e]
           /\ pc' = [pc EXCEPT ![p] = "rollback"]
           /\ UNCHANGED <<pending, idx>>
  /\ txLate' = Late(p)
  /\ UNCHANGED <<store, nextId, op, args, tx, txOpened, record, returned,
                 thrown, sdpSent, sdpFailed,
                 authVars>>

\* destroyAll: after the loop, await commitTransaction()
DestroyAllCommit(p) ==
  /\ pc[p] = "destroy"
  /\ idx[p] > Len(args[p].ids)
  /\ \/ /\ CommitTransaction(p)
        /\ Return(p, NoRow)
        /\ UNCHANGED <<error, thrown>>
     \/ /\ \E e \in CommitFailure(p) : error' = [error EXCEPT ![p] = e]
        /\ pc' = [pc EXCEPT ![p] = "rollback"]
        /\ txLate' = Late(p)
        /\ UNCHANGED <<store, users, members, tx, pending, returned, thrown>>
  /\ UNCHANGED <<nextId, op, args, txOpened, idx, record, sdpSent, sdpFailed,
                 authLocal>>

\* destroyAll: catch (error) { await rollbackTransaction(); throw error }
DestroyAllRollback(p) ==
  /\ pc[p] = "rollback"
  /\ op[p] = "destroyAll"
  /\ RollbackTransaction(p)
  /\ Throw(p, error[p])
  /\ UNCHANGED <<store, nextId, op, args, txOpened, idx, record, error,
                 returned, sdpSent, sdpFailed,
                 authVars>>

\* CallImport with the guard `importHash === null'
CallImport_NullOnly(p) ==
  /\ nextId <= MaxId
  /\ nextId' = nextId + 1
  /\ \E d \in DataValues, h \in ImportHashes :
       LET a == [NoArgs EXCEPT !.data = d, !.importData = d, !.importHash = h,
                               !.newId = nextId]
       IN IF h = JsNull
            THEN Enter(p, "import", a, "done", Error400(importHashRequired))
            ELSE Enter(p, "import", a, "count", NoError)
  /\ UNCHANGED <<store, sdpSent, sdpFailed, authVars>>

\* import(data, importHash) is called: if (!importHash) throw Error400
CallImport(p) ==
  /\ nextId <= MaxId
  /\ nextId' = nextId + 1
  /\ \E d \in DataValues, h \in ImportHashes :
       LET a == [NoArgs EXCEPT !.data = d, !.importData = d, !.importHash = h,
                               !.newId = nextId]
       IN IF Falsy(h)
            THEN Enter(p, "import", a, "done", Error400(importHashRequired))
            ELSE Enter(p, "import", a, "count", NoError)
  /\ UNCHANGED <<store, sdpSent, sdpFailed,
                 authVars>>

\* ImportCount with the spread in the other order, {importHash, ...data}: an
\* import hash that data carries wins over the one given to import
ImportCount_DataWins(p) ==
  /\ pc[p] = "count"
  /\ IF Count(args[p].importHash) > 0
       THEN /\ Throw(p, Error400(importHashExistent))
            /\ UNCHANGED args
       ELSE /\ args' = [args EXCEPT ![p].data.importHash =
                          IF args[p].data.importHash = JsUndefined
                            THEN args[p].importHash ELSE @]
            /\ pc' = [pc EXCEPT ![p] = "createTransaction"]
            /\ UNCHANGED thrown
  /\ UNCHANGED <<store, nextId, op, tx, txOpened, txLate, pending, idx, record,
                 error, returned, sdpSent, sdpFailed,
                 authVars>>

\* ImportCount without the duplicate-import guard
ImportCount_NoGuard(p) ==
  /\ pc[p] = "count"
  /\ args' = [args EXCEPT ![p].data.importHash = args[p].importHash]
  /\ pc' = [pc EXCEPT ![p] = "createTransaction"]
  /\ UNCHANGED <<store, nextId, op, tx, txOpened, txLate, pending, idx, record,
                 error, returned, thrown, sdpSent, sdpFailed, authVars>>

\* import: if (await _isImportHashExistent(importHash)) throw Error400;
\*         return this.create({...data, importHash})
ImportCount(p) ==
  /\ pc[p] = "count"
  /\ IF Count(args[p].importHash) > 0
       THEN /\ Throw(p, Error400(importHashExistent))
            /\ UNCHANGED args
       ELSE /\ args' = [args EXCEPT ![p].data.importHash = args[p].importHash]
            /\ pc' = [pc EXCEPT ![p] = "createTransaction"]
            /\ UNCHANGED thrown
  /\ UNCHANGED <<store, nextId, op, tx, txOpened, txLate, pending, idx, record,
                 error, returned, sdpSent, sdpFailed,
                 authVars>>

\* findById(id) is called
CallFindById(p) ==
  /\ \E i \in Ids :
       Enter(p, "findById", [NoArgs EXCEPT !.id = i], "findById", NoError)
  /\ UNCHANGED <<store, nextId, sdpSent, sdpFailed, authVars>>

\* findAllAutocomplete(search, limit) is called
CallFindAllAutocomplete(p) ==
  /\ \E search \in Searches, limit \in Limits :
       Enter(p, "findAllAutocomplete",
             [NoArgs EXCEPT !.search = search, !.limit = limit],
             "findAllAutocomplete", NoError)
  /\ UNCHANGED <<store, nextId, sdpSent, sdpFailed, authVars>>

\* findAndCountAll(args) is called
CallFindAndCountAll(p) ==
  /\ \E filter \in Filters :
       Enter(p, "findAndCountAll", [NoArgs EXCEPT !.filter = filter],
             "findAndCountAll", NoError)
  /\ UNCHANGED <<store, nextId, sdpSent, sdpFailed, authVars>>

\* a read returns what the repository returns, or throws what it throws
ReadReturns(p, r) ==
  /\ \/ Return(p, r) /\ UNCHANGED thrown
     \/ Throw(p, DatabaseError) /\ UNCHANGED returned
  /\ UNCHANGED <<store, nextId, op, args, tx, txOpened, txLate, pending, idx,
                 record, error, sdpSent, sdpFailed, authVars>>

\* FindById that fails with Error404 when no row has the id
FindById_Throw404(p) ==
  /\ pc[p] = "findById"
  /\ IF args[p].id \in DOMAIN store
       THEN ReadReturns(p, FindByIdRow(args[p].id))
       ELSE /\ Throw(p, Error404)
            /\ UNCHANGED <<store, nextId, op, args, tx, txOpened, txLate, pending,
                           idx, record, error, returned, sdpSent, sdpFailed,
                           authVars>>

\* findById: return VisitorRepository.findById(id, this.options)
FindById(p) ==
  /\ pc[p] = "findById"
  /\ ReadReturns(p, FindByIdRow(args[p].id))

\* findAllAutocomplete: return VisitorRepository.findAllAutocomplete(search, limit, this.options)
FindAllAutocomplete(p) ==
  /\ pc[p] = "findAllAutocomplete"
  /\ ReadReturns(p, FindAllAutocompleteRows(args[p].search, args[p].limit))

\* findAndCountAll: return VisitorRepository.findAndCountAll(args, this.options)
FindAndCountAll(p) ==
  /\ pc[p] = "findAndCountAll"
  /\ ReadReturns(p, FindAndCountAllRows(args[p].filter))

(***************************************************************************)
(* AuthService                                                             *)
(***************************************************************************)
\* request p enters operation o of the AuthService with arguments a, goes on
\* at `to' and has thrown e (NoError: nothing)
AuthEnterAt(p, o, a, to, e) ==
  /\ service = "AuthService"
  /\ pc[p] = "idle"
  /\ InOrder(p)
  /\ op' = [op EXCEPT ![p] = o]
  /\ args' = [args EXCEPT ![p] = a]
  /\ pc' = [pc EXCEPT ![p] = to]
  /\ tx' = [tx EXCEPT ![p] = "none"]
  /\ txOpened' = [txOpened EXCEPT ![p] = 0]
  /\ txLate' = [txLate EXCEPT ![p] = FALSE]
  /\ pending' = [pending EXCEPT ![p] = <<>>]
  /\ error' = [error EXCEPT ![p] = NoError]
  /\ thrown' = [thrown EXCEPT ![p] = e]
  /\ user' = [user EXCEPT ![p] = NoUser]
  /\ token' = [token EXCEPT ![p] = NoToken]
  /\ steps' = [steps EXCEPT ![p] = <<>>]
  /\ UNCHANGED <<service, config, nextUserId, users, members, visitorVars>>

\* request p enters signup or signin
AuthEnter(p, o, a) == AuthEnterAt(p, o, a, "createTransaction", NoError)

\* signup(email, password, invitationToken, tenantId) is called
CallSignup(p) == \E a \in AuthArgs : AuthEnter(p, "signup", a)

\* signin(email, password, invitationToken, tenantId) is called
CallSignin(p) == \E a \in AuthArgs : AuthEnter(p, "signin", a)

\* UserRepository.findByEmail(email, options): no transaction in options
FindByEmailRow(email) ==
  IF \E i \in DOMAIN users : users[i].email = email
    THEN users[CHOOSE i \in DOMAIN users : users[i].email = email]
    ELSE NoUser

\* OnboardNext whose multi-tenant test leaves out `&& tenantId'
OnboardNext_IgnoreTenantId(a, after) ==
  LET multi == config.TENANT_MODE \in {"multi", "multi-with-subdomain"}
      single == config.TENANT_MODE = "single"
      rank == CASE after = "start" -> 0
                [] after = "acceptInvitation" -> 1
                [] after = "joinWithDefaultRolesOrAskApproval" -> 2
                [] after = "joinDefaultUsingInvitedEmail" -> 3
                [] OTHER -> 4
  IN  IF rank < 1 /\ ~Falsy(a.invitationToken) THEN "acceptInvitation"
      ELSE IF rank < 2 /\ multi THEN "joinWithDefaultRolesOrAskApproval"
      ELSE IF rank < 3 /\ single THEN "joinDefaultUsingInvitedEmail"
      ELSE IF rank < 4 /\ single THEN "createOrJoinDefault"
      ELSE "commit"

\* handleOnboard: the step that follows step `after', "commit" when none is left
OnboardNext(a, after) ==
  LET multi == /\ config.TENANT_MODE \in {"multi", "multi-with-subdomain"}
               /\ ~Falsy(a.tenantId)
      single == config.TENANT_MODE = "single"
      rank == CASE after = "start" -> 0
                [] after = "acceptInvitation" -> 1
                [] after = "joinWithDefaultRolesOrAskApproval" -> 2
                [] after = "joinDefaultUsingInvitedEmail" -> 3
                [] OTHER -> 4
  IN  IF rank < 1 /\ ~Falsy(a.invitationToken) THEN "acceptInvitation"
      ELSE IF rank < 2 /\ multi THEN "joinWithDefaultRolesOrAskApproval"
      ELSE IF rank < 3 /\ single THEN "joinDefaultUsingInvitedEmail"
      ELSE IF rank < 4 /\ single THEN "createOrJoinDefault"
      ELSE "commit"

\* await this.handleOnboard(user, invitationToken, tenantId, {transaction})
HandleOnboard(p) ==
  \E t \in InvitationTokens, tenantId \in TenantIds :
    LET a == [args[p] EXCEPT !.invitationToken = t, !.tenantId = tenantId]
    IN /\ args' = [args EXCEPT ![p] = a]
       /\ pc' = [pc EXCEPT ![p] = OnboardNext(a, "start")]

\* FindByEmail with the unknown user of signin thrown past the catch block
FindByEmail_ThrowOutsideTry(p) ==
  /\ pc[p] = "findByEmail"
  /\ LET found == FindByEmailRow(args[p].email)
     IN \/ /\ found # NoUser
           /\ user' = [user EXCEPT ![p] = found]
           /\ pc' = [pc EXCEPT ![p] = "findPassword"]
           /\ UNCHANGED <<error, thrown>>
        \/ /\ found = NoUser
           /\ op[p] = "signup"
           /\ pc' = [pc EXCEPT ![p] = "createFromAuth"]
           /\ UNCHANGED <<user, error, thrown>>
        \/ /\ found = NoUser
           /\ op[p] = "signin"
           /\ Throw(p, Error400(<<"auth", "userNotFound">>))
           /\ UNCHANGED <<user, error>>
        \/ /\ Catch(p, DatabaseError)
           /\ UNCHANGED <<user, thrown>>
  /\ UNCHANGED <<op, args, tx, txOpened, txLate, pending, service,
                 config, nextUserId, users, members, token, steps, visitorVars>>

\* signup, signin: await UserRepository.findByEmail(email, options)
\* (signup goes on to bcrypt.hash, which touches nothing shared)
FindByEmail(p) ==
  /\ pc[p] = "findByEmail"
  /\ LET found == FindByEmailRow(args[p].email)
     IN \/ /\ found # NoUser
           /\ user' = [user EXCEPT ![p] = found]
           /\ pc' = [pc EXCEPT ![p] = "findPassword"]
           /\ UNCHANGED error
        \/ /\ found = NoUser
           /\ op[p] = "signup"
           /\ pc' = [pc EXCEPT ![p] = "createFromAuth"]
           /\ UNCHANGED <<user, error>>
        \/ /\ found = NoUser
           /\ op[p] = "signin"
           /\ Catch(p, Error400(<<"auth", "userNotFound">>))
           /\ UNCHANGED user
        \/ /\ Catch(p, DatabaseError)
           /\ UNCHANGED user
  /\ UNCHANGED <<op, args, tx, txOpened, txLate, pending, thrown, service,
                 config, nextUserId, users, members, token, steps, visitorVars>>

\* FindPassword without the test `if (existingPassword) throw': a sign up
\* with the email of a user that has signed up sets the password again
FindPassword_NoInUseCheck(p) ==
  /\ pc[p] = "findPassword"
  /\ LET password == users[user[p].id].password
     IN \/ /\ op[p] = "signup"
           /\ pc' = [pc EXCEPT ![p] = "updatePassword"]
           /\ UNCHANGED <<error, args>>
        \/ /\ op[p] = "signin"
           /\ IF password = NoPassword
                THEN Catch(p, Error400(<<"auth", "wrongPassword">>)) /\ UNCHANGED args
              ELSE IF ~BcryptCompare(args[p].password, password)
                THEN Catch(p, Error400(<<"auth", "wrongPassword">>)) /\ UNCHANGED args
              ELSE /\ HandleOnboard(p)
                   /\ UNCHANGED error
        \/ Catch(p, DatabaseError) /\ UNCHANGED args
  /\ UNCHANGED <<op, tx, txOpened, txLate, pending, thrown, service,
                 config, nextUserId, users, members, user, token, steps,
                 visitorVars>>

\* FindPassword without bcrypt.compare
FindPassword_NoCompare(p) ==
  /\ pc[p] = "findPassword"
  /\ LET password == users[user[p].id].password
     IN \/ /\ op[p] = "signup"
           /\ IF password # NoPassword
                THEN Catch(p, Error400(<<"auth", "emailAlreadyInUse">>))
                ELSE /\ pc' = [pc EXCEPT ![p] = "updatePassword"]
                     /\ UNCHANGED error
           /\ UNCHANGED args
        \/ /\ op[p] = "signin"
           /\ IF password = NoPassword
                THEN Catch(p, Error400(<<"auth", "wrongPassword">>)) /\ UNCHANGED args
                ELSE /\ HandleOnboard(p)
                     /\ UNCHANGED error
        \/ Catch(p, DatabaseError) /\ UNCHANGED args
  /\ UNCHANGED <<op, tx, txOpened, txLate, pending, thrown, service,
                 config, nextUserId, users, members, user, token, steps,
                 visitorVars>>

\* signup, signin: await UserRepository.findPassword(user.id, options)
\* (signin goes on to bcrypt.compare)
FindPassword(p) ==
  /\ pc[p] = "findPassword"
  /\ LET password == users[user[p].id].password
     IN \/ /\ op[p] = "signup"
           /\ IF password # NoPassword
                THEN Catch(p, Error400(<<"auth", "emailAlreadyInUse">>))
                ELSE /\ pc' = [pc EXCEPT ![p] = "updatePassword"]
                     /\ UNCHANGED error
           /\ UNCHANGED args
        \/ /\ op[p] = "signin"
           /\ IF password = NoPassword
                THEN Catch(p, Error400(<<"auth", "wrongPassword">>)) /\ UNCHANGED args
              ELSE IF ~BcryptCompare(args[p].password, password)
                THEN Catch(p, Error400(<<"auth", "wrongPassword">>)) /\ UNCHANGED args
              ELSE /\ HandleOnboard(p)
                   /\ UNCHANGED error
        \/ Catch(p, DatabaseError) /\ UNCHANGED args
  /\ UNCHANGED <<op, tx, txOpened, txLate, pending, thrown, service,
                 config, nextUserId, users, members, user, token, steps,
                 visitorVars>>

\* after the password is written: the verification email if the sender is
\* configured, handleOnboard otherwise
AfterPassword(p) ==
  IF config.isConfigured
    THEN /\ pc' = [pc EXCEPT ![p] = "sendEmailAddressVerificationEmail"]
         /\ UNCHANGED args
    ELSE HandleOnboard(p)

\* SignupUpdatePassword without {transaction} in the options: the password is
\* written to the database at once
SignupUpdatePassword_NoTransaction(p) ==
  /\ pc[p] = "updatePassword"
  /\ \/ /\ users' = [users EXCEPT ![user[p].id].password = BcryptHash(args[p].password)]
        /\ AfterPassword(p)
        /\ UNCHANGED error
     \/ /\ Catch(p, DatabaseError)
        /\ UNCHANGED <<users, args>>
  /\ txLate' = Late(p)
  /\ UNCHANGED <<op, tx, txOpened, pending, thrown, service, config,
                 nextUserId, members, user, token, steps, visitorVars>>

\* signup of an invited user: await UserRepository.updatePassword(id, hash, {transaction})
SignupUpdatePassword(p) ==
  /\ pc[p] = "updatePassword"
  /\ \/ /\ pending' = [pending EXCEPT ![p] = Append(@,
                         UpdatePassword(user[p].id,
                           [user[p] EXCEPT !.password = BcryptHash(args[p].password)]))]
        /\ AfterPassword(p)
        /\ UNCHANGED error
     \/ /\ Catch(p, DatabaseError)
        /\ UNCHANGED <<pending, args>>
  /\ txLate' = Late(p)
  /\ UNCHANGED <<op, tx, txOpened, thrown, service, config,
                 nextUserId, users, members, user, token, steps, visitorVars>>

\* signup of a new user: await UserRepository.createFromAuth({...}, {transaction})
SignupCreateFromAuth(p) ==
  /\ pc[p] = "createFromAuth"
  /\ LET row == [id |-> nextUserId, email |-> args[p].email,
                 password |-> BcryptHash(args[p].password)]
         taken == \E i \in DOMAIN UsersView(p) : UsersView(p)[i].email = row.email
     IN \/ /\ ~taken
           /\ pending' = [pending EXCEPT ![p] = Append(@, CreateFromAuth(row.id, row))]
           /\ user' = [user EXCEPT ![p] = row]
           /\ nextUserId' = nextUserId + 1
           /\ AfterPassword(p)
           /\ UNCHANGED error
        \/ /\ \E e \in {DatabaseError} \cup
                       (IF taken THEN {UniqueConstraintError("email")} ELSE {}) :
                Catch(p, e)
           /\ UNCHANGED <<pending, user, nextUserId, args>>
  /\ txLate' = Late(p)
  /\ UNCHANGED <<op, tx, txOpened, thrown, service, config, users,
                 members, token, steps, visitorVars>>

\* signup: await this.sendEmailAddressVerificationEmail(..., {transaction})
SendEmailAddressVerificationEmail(p) ==
  /\ pc[p] = "sendEmailAddressVerificationEmail"
  /\ \/ /\ HandleOnboard(p)
        /\ UNCHANGED error
     \/ /\ \E e \in {Error400(<<"auth", "emailAddressVerificationEmail", "error">>),
                     EmailError} : Catch(p, e)
        /\ UNCHANGED args
  /\ txLate' = Late(p)
  /\ UNCHANGED <<op, tx, txOpened, pending, thrown, service, config,
                 nextUserId, users, members, user, token, steps, visitorVars>>

Membership(p, tenantId, via) ==
  [userId |-> user[p].id, tenantId |-> tenantId, role |-> "visitor", via |-> via]

\* AcceptInvitation without the try/catch around it: a failure of the
\* acceptance reaches the catch block of signup and signin
AcceptInvitation_Uncaught(p) ==
  /\ pc[p] = "acceptInvitation"
  /\ \/ /\ pending' = [pending EXCEPT ![p] = Append(@,
                         Join(user[p].id, Membership(p, "t1", "invitation")))]
        /\ steps' = [steps EXCEPT ![p] = Append(@, <<"acceptInvitation", "ok">>)]
        /\ pc' = [pc EXCEPT ![p] = OnboardNext(args[p], "acceptInvitation")]
        /\ UNCHANGED error
     \/ /\ steps' = [steps EXCEPT ![p] = Append(@, <<"acceptInvitation", "failed">>)]
        /\ Catch(p, TenantError)
        /\ UNCHANGED pending
  /\ txLate' = Late(p)
  /\ UNCHANGED <<op, args, tx, txOpened, thrown, service, config,
                 nextUserId, users, members, user, token, visitorVars>>

\* handleOnboard: try { await acceptInvitation(invitationToken) } catch { console.error }
AcceptInvitation(p) ==
  /\ pc[p] = "acceptInvitation"
  /\ \/ /\ pending' = [pending EXCEPT ![p] = Append(@,
                         Join(user[p].id, Membership(p, "t1", "invitation")))]
        /\ steps' = [steps EXCEPT ![p] = Append(@, <<"acceptInvitation", "ok">>)]
     \/ /\ steps' = [steps EXCEPT ![p] = Append(@, <<"acceptInvitation", "failed">>)]
        /\ UNCHANGED pending
  /\ pc' = [pc EXCEPT ![p] = OnboardNext(args[p], "acceptInvitation")]
  /\ txLate' = Late(p)
  /\ UNCHANGED <<op, args, tx, txOpened, error, thrown, service, config,
                 nextUserId, users, members, user, token, visitorVars>>

\* a step of handleOnboard that TenantService carries out, and that may fail
TenantStep(p, step, tenantId) ==
  /\ pc[p] = step
  /\ \/ /\ pending' = [pending EXCEPT ![p] = Append(@,
                         Join(user[p].id, Membership(p, tenantId, step)))]
        /\ steps' = [steps EXCEPT ![p] = Append(@, <<step, "ok">>)]
        /\ pc' = [pc EXCEPT ![p] = OnboardNext(args[p], step)]
        /\ UNCHANGED error
     \/ /\ Catch(p, TenantError)
        /\ steps' = [steps EXCEPT ![p] = Append(@, <<step, "failed">>)]
        /\ UNCHANGED pending
  /\ txLate' = Late(p)
  /\ UNCHANGED <<op, args, tx, txOpened, thrown, service, config,
                 nextUserId, users, members, user, token, visitorVars>>

\* handleOnboard, multi tenant: joinWithDefaultRolesOrAskApproval({tenantId, roles: ["visitor"]})
JoinWithDefaultRolesOrAskApproval(p) ==
  TenantStep(p, "joinWithDefaultRolesOrAskApproval", args[p].tenantId)

\* handleOnboard, single tenant: joinDefaultUsingInvitedEmail(transaction)
JoinDefaultUsingInvitedEmail(p) ==
  TenantStep(p, "joinDefaultUsingInvitedEmail", "default")

\* handleOnboard, single tenant: createOrJoinDefault({roles: ["visitor"]}, transaction)
CreateOrJoinDefault(p) ==
  TenantStep(p, "createOrJoinDefault", "default")

\* AuthCommit that returns the token it signed without awaiting the commit:
\* the caller has the token also when the commit fails
AuthCommit_ReturnBeforeCommit(p) ==
  /\ pc[p] = "commit"
  /\ op[p] \in {"signup", "signin"}
  /\ \/ /\ CommitTransaction(p)
        /\ token' = [token EXCEPT ![p] = JwtSign([id |-> user[p].id])]
        /\ pc' = [pc EXCEPT ![p] = "done"]
        /\ UNCHANGED error
     \/ /\ \E e \in CommitFailure(p) : Catch(p, e)
        /\ token' = [token EXCEPT ![p] = JwtSign([id |-> user[p].id])]
        /\ txLate' = Late(p)
        /\ UNCHANGED <<store, users, members, tx, pending>>
  /\ UNCHANGED <<op, args, txOpened, thrown, service, config, nextUserId,
                 user, steps, visitorLocal>>

\* AuthCommit with the token signed after the commit, where signing can fail
AuthCommit_SignAfterCommit(p) ==
  /\ pc[p] = "commit"
  /\ op[p] \in {"signup", "signin"}
  /\ \/ /\ CommitTransaction(p)
        /\ token' = [token EXCEPT ![p] = JwtSign([id |-> user[p].id])]
        /\ pc' = [pc EXCEPT ![p] = "done"]
        /\ UNCHANGED error
     \/ /\ CommitTransaction(p)
        /\ Catch(p, [kind |-> "JsonWebTokenError", key |-> <<>>])
        /\ UNCHANGED token
     \/ /\ \E e \in CommitFailure(p) : Catch(p, e)
        /\ txLate' = Late(p)
        /\ UNCHANGED <<store, users, members, tx, pending, token>>
  /\ UNCHANGED <<op, args, txOpened, thrown, service, config, nextUserId,
                 user, steps, visitorLocal>>

\* signup, signin: token = jwt.sign({id}); await commitTransaction(); return token
AuthCommit(p) ==
  /\ pc[p] = "commit"
  /\ op[p] \in {"signup", "signin"}
  /\ \/ /\ CommitTransaction(p)
        /\ token' = [token EXCEPT ![p] = JwtSign([id |-> user[p].id])]
        /\ pc' = [pc EXCEPT ![p] = "done"]
        /\ UNCHANGED error
     \/ /\ \E e \in CommitFailure(p) : Catch(p, e)
        /\ txLate' = Late(p)
        /\ UNCHANGED <<store, users, members, tx, pending, token>>
  /\ UNCHANGED <<op, args, txOpened, thrown, service, config, nextUserId,
                 user, steps, visitorLocal>>

\* signup, signin: catch (error) { await rollbackTransaction(); throw error }
AuthRollback(p) ==
  /\ pc[p] = "rollback"
  /\ op[p] \in {"signup", "signin"}
  /\ RollbackTransaction(p)
  /\ Throw(p, error[p])
  /\ UNCHANGED <<op, args, txOpened, error, service, config, nextUserId,
                 users, members, user, token, steps, visitorVars>>

\* CallFindByToken with jwt.decode in the place of jwt.verify: neither the
\* signature nor the expiry is checked
CallFindByToken_DecodeOnly(p) ==
  \E t \in PresentedTokens :
    LET err == IF t.malformed THEN JsonWebTokenError("jwt malformed") ELSE NoError
    IN AuthEnterAt(p, "findByToken", t,
                   IF err = NoError THEN "findUserById" ELSE "done", err)

\* findByToken(token, options) is called: jwt.verify(token, secret, callback);
\* if (err) { reject(err); return; }
CallFindByToken(p) ==
  \E t \in PresentedTokens :
    LET err == JwtVerify(t)
    IN AuthEnterAt(p, "findByToken", t,
                   IF err = NoError THEN "findUserById" ELSE "done", err)

\* findByToken: UserRepository.findById(decoded.id, options).then(user => ...
\* if (user && !EmailSender.isConfigured) user.emailVerified = true;
\* resolve(user)).catch(reject)
FindByTokenUser(p) ==
  /\ pc[p] = "findUserById"
  /\ LET id == args[p].token.payload.id
         found == IF id \in DOMAIN users THEN users[id] ELSE NoUser
     IN \/ /\ user' = [user EXCEPT ![p] = found]
           /\ steps' = [steps EXCEPT ![p] =
                          <<<<"findById", "ok">>>> \o
                          (IF found # NoUser /\ ~config.isConfigured
                             THEN <<<<"emailVerified", "set">>>> ELSE <<>>)]
           /\ pc' = [pc EXCEPT ![p] = "done"]
           /\ UNCHANGED thrown
        \/ /\ Throw(p, DatabaseError)
           /\ steps' = [steps EXCEPT ![p] = <<<<"findById", "failed">>>>]
           /\ UNCHANGED user
  /\ UNCHANGED <<op, args, tx, txOpened, txLate, pending, error, service, config,
                 nextUserId, users, members, token, visitorVars>>

(***************************************************************************)
(* A caller that drives the transaction coordinator itself: it opens a     *)
(* unit of work, writes inside it, commits it, and rolls it back as often  *)
(* as it likes                                                             *)
(***************************************************************************)
\* the writes a caller may issue inside the unit of work of p
UnitWrites(p) ==
  LET v == View(p)
  IN {Destroy(i) : i \in DOMAIN v}
     \cup {Update(i, [v[i] EXCEPT !.uniqueField = u, !.updatedAt = Now]) :
             i \in DOMAIN v, u \in UniqueValues}
     \cup {Insert(nextId, [id |-> nextId, uniqueField |-> u, importHash |-> JsUndefined,
                           createdAt |-> Now, updatedAt |-> Now]) :
             u \in {x \in UniqueValues : nextId <= MaxId}}

\* createTransaction()
UnitOpen(p) ==
  /\ service = "SequelizeRepository"
  /\ pc[p] = "idle"
  /\ InOrder(p)
  /\ op' = [op EXCEPT ![p] = "unitOfWork"]
  /\ pc' = [pc EXCEPT ![p] = "unit"]
  /\ CreateTransaction(p)
  /\ UNCHANGED <<store, nextId, args, txLate, idx, record, error, returned,
                 thrown, sdpSent, sdpFailed, authVars>>

\* a write of the persistence adapter with the transaction of p
UnitWrite(p) ==
  /\ pc[p] = "unit"
  /\ tx[p] = "open"
  /\ Len(pending[p]) < MaxWrites
  /\ \E w \in UnitWrites(p) :
       /\ UniqueConflict(View(p), w.id, w.row) = "none" \/ w.t = "destroy"
       /\ pending' = [pending EXCEPT ![p] = Append(@, w)]
       /\ nextId' = IF w.t = "insert" THEN nextId + 1 ELSE nextId
  /\ txLate' = Late(p)
  /\ UNCHANGED <<store, pc, op, args, tx, txOpened, idx, record, error,
                 returned, thrown, sdpSent, sdpFailed, authVars>>

\* commitTransaction(transaction)
UnitCommit(p) ==
  /\ pc[p] = "unit"
  /\ CommitTransaction(p)
  /\ UNCHANGED <<nextId, pc, op, args, txOpened, idx, record, error, returned,
                 thrown, sdpSent, sdpFailed, authLocal>>

\* rollbackTransaction(transaction), on a unit of work in any state
UnitRollback(p) ==
  /\ pc[p] = "unit"
  /\ RollbackTransaction(p)
  /\ UNCHANGED <<store, nextId, pc, op, args, txOpened, idx, record, error,
                 returned, thrown, sdpSent, sdpFailed, authVars>>

\* what is the same at the start of every behaviour
InitCommon ==
  /\ store = InitialStore
  /\ nextId = Cardinality(DOMAIN InitialStore) + 1
  /\ pc = [p \in Procs |-> "idle"]
  /\ op = [p \in Procs |-> "none"]
  /\ args = [p \in Procs |-> NoArgs]
  /\ tx = [p \in Procs |-> "none"]
  /\ txOpened = [p \in Procs |-> 0]
  /\ txLate = [p \in Procs |-> FALSE]
  /\ pending = [p \in Procs |-> <<>>]
  /\ idx = [p \in Procs |-> 0]
  /\ record = [p \in Procs |-> NoRow]
  /\ error = [p \in Procs |-> NoError]
  /\ returned = [p \in Procs |-> NoRow]
  /\ thrown = [p \in Procs |-> NoError]
  /\ sdpSent = <<>>
  /\ sdpFailed = 0
  /\ nextUserId = Cardinality(DOMAIN InitialUsers) + 1
  /\ users = InitialUsers
  /\ members = InitialMembers
  /\ user = [p \in Procs |-> NoUser]
  /\ token = [p \in Procs |-> NoToken]
  /\ steps = [p \in Procs |-> <<>>]

\* the requests go to a VisitorService
Init ==
  /\ InitCommon
  /\ service = "VisitorService"
  /\ config = [TENANT_MODE |-> "multi", isConfigured |-> FALSE]

Next ==
  \/ \E p \in Procs : CallCreate(p)
  \/ \E p \in Procs : OpenTransaction(p)
  \/ \E p \in Procs : CreateInsert(p)
  \/ \E p \in Procs : CreateCommit(p)
  \/ \E p \in Procs : CatchRollback(p)
  \/ \E p \in Procs : CallUpdate(p)
  \/ \E p \in Procs : UpdateRow(p)
  \/ \E p \in Procs : UpdateCommit(p)
  \/ \E p \in Procs : CallDestroyAll(p)
  \/ \E p \in Procs : DestroyOne(p)
  \/ \E p \in Procs : DestroyAllCommit(p)
  \/ \E p \in Procs : DestroyAllRollback(p)
  \/ \E p \in Procs : CallImport(p)
  \/ \E p \in Procs : ImportCount(p)
  \/ \E p \in Procs : CatchClassify(p)
  \/ \E p \in Procs : CallFindById(p)
  \/ \E p \in Procs : FindById(p)
  \/ \E p \in Procs : CallFindAllAutocomplete(p)
  \/ \E p \in Procs : FindAllAutocomplete(p)
  \/ \E p \in Procs : CallFindAndCountAll(p)
  \/ \E p \in Procs : FindAndCountAll(p)
  \/ SdpDeliveryFails

Spec == Init /\ [][Next]_vars

\* the requests go to the AuthService, under any configuration
AuthInit ==
  /\ InitCommon
  /\ service = "AuthService"
  /\ config \in Configs

AuthNext ==
  \/ \E p \in Procs : CallSignup(p)
  \/ \E p \in Procs : CallSignin(p)
  \/ \E p \in Procs : OpenTransaction(p)
  \/ \E p \in Procs : FindByEmail(p)
  \/ \E p \in Procs : FindPassword(p)
  \/ \E p \in Procs : SignupUpdatePassword(p)
  \/ \E p \in Procs : SignupCreateFromAuth(p)
  \/ \E p \in Procs : SendEmailAddressVerificationEmail(p)
  \/ \E p \in Procs : AcceptInvitation(p)
  \/ \E p \in Procs : JoinWithDefaultRolesOrAskApproval(p)
  \/ \E p \in Procs : JoinDefaultUsingInvitedEmail(p)
  \/ \E p \in Procs : CreateOrJoinDefault(p)
  \/ \E p \in Procs : AuthCommit(p)
  \/ \E p \in Procs : AuthRollback(p)
  \/ \E p \in Procs : CallFindByToken(p)
  \/ \E p \in Procs : FindByTokenUser(p)

AuthSpec == AuthInit /\ [][AuthNext]_vars

\* the callers drive the transaction coordinator themselves
UnitInit ==
  /\ InitCommon
  /\ service = "SequelizeRepository"
  /\ config = [TENANT_MODE |-> "multi", isConfigured |-> FALSE]

UnitNext ==
  \/ \E p \in Procs : UnitOpen(p)
  \/ \E p \in Procs : UnitWrite(p)
  \/ \E p \in Procs : UnitCommit(p)
  \/ \E p \in Procs : UnitRollback(p)

UnitSpec == UnitInit /\ [][UnitNext]_vars

\* the requests go to either service
ServiceSpec == (Init \/ AuthInit) /\ [][Next \/ AuthNext]_vars

\* the steps a request takes once it was called: the continuation of each
\* awaited call
Continue(p) ==
  \/ OpenTransaction(p)
  \/ CreateInsert(p) \/ CreateCommit(p) \/ CatchRollback(p) \/ CatchClassify(p)
  \/ UpdateRow(p) \/ UpdateCommit(p)
  \/ DestroyOne(p) \/ DestroyAllCommit(p) \/ DestroyAllRollback(p)
  \/ ImportCount(p)
  \/ FindById(p) \/ FindAllAutocomplete(p) \/ FindAndCountAll(p)
  \/ FindByEmail(p) \/ FindPassword(p)
  \/ SignupUpdatePassword(p) \/ SignupCreateFromAuth(p)
  \/ SendEmailAddressVerificationEmail(p)
  \/ AcceptInvitation(p) \/ JoinWithDefaultRolesOrAskApproval(p)
  \/ JoinDefaultUsingInvitedEmail(p) \/ CreateOrJoinDefault(p)
  \/ AuthCommit(p) \/ AuthRollback(p)
  \/ FindByTokenUser(p)

\* a caller invokes an operation of either service
Call(p) ==
  \/ CallCreate(p)
  \/ CallUpdate(p)
  \/ CallDestroyAll(p)
  \/ CallImport(p)
  \/ CallFindById(p)
  \/ CallFindAllAutocomplete(p)
  \/ CallFindAndCountAll(p)
  \/ CallSignup(p)
  \/ CallSignin(p)
  \/ CallFindByToken(p)

\* one request is served on its own: the second request is never called.
\* No step of a request waits for another request, so what a request can
\* reach from an open transaction does not depend on the other request.
FairNext ==
  \/ Call(1)
  \/ Continue(1)
  \/ SdpDeliveryFails

\* every awaited call settles and the event loop then runs its continuation
FairSpec ==
  (Init \/ AuthInit) /\ [][FairNext]_vars /\ \A p \in Procs : WF_vars(Continue(p))


(***************************************************************************)
(* Properties                                                              *)
(***************************************************************************)
Done(p) == pc[p] = "done"
Threw(p) == Done(p) /\ thrown[p] # NoError
IdsOf(seq) == {seq[k] : k \in DOMAIN seq}
Without(s, ids) == [i \in DOMAIN s \ ids |-> s[i]]
\* request p takes a step
Moves(p) ==
  <<pc[p], op[p], args[p], idx[p], tx[p]>> # <<pc'[p], op'[p], args'[p], idx'[p], tx'[p]>>

\* C1: a call of create, update or destroyAll opens one transaction, never a
\* second one, and when the call has returned or thrown that transaction is
\* committed or rolled back, and nothing was issued against it afterwards.
OneTransactionOneTerminalState ==
  \A p \in Procs :
    op[p] \in {"create", "update", "destroyAll"} =>
      /\ txOpened[p] <= 1
      /\ Done(p) => /\ txOpened[p] = 1
                    /\ tx[p] \in Terminal
                    /\ ~txLate[p]
                    /\ pending[p] = <<>>

\* a destroyAll has thrown with its transaction rolled back, and a create has
\* returned with its transaction committed
OneTransactionWitness ==
  /\ \E p \in Procs : op[p] = "destroyAll" /\ Threw(p) /\ tx[p] = "rolled-back"
  /\ \E p \in Procs : op[p] = "create" /\ Done(p) /\ tx[p] = "committed"

\* C2: no step of a destroyAll(ids) changes the store other operations read,
\* except the step that ends it with success, and that step removes every
\* row of ids at once and nothing else.
DestroyAllIsAllOrNothing ==
  [][\A p \in Procs :
       (op[p] = "destroyAll" /\ op'[p] = "destroyAll" /\ Moves(p)) =>
         \/ store' = store
         \/ /\ pc'[p] = "done"
            /\ thrown'[p] = NoError
            /\ store' = Without(store, IdsOf(args[p].ids))]_vars

\* a destroyAll of two rows has failed at its second deletion, and both rows
\* are in the store
DestroyAllWitness ==
  \E p \in Procs :
    /\ op[p] = "destroyAll"
    /\ Threw(p)
    /\ idx[p] = 2
    /\ Len(args[p].ids) = 2
    /\ args[p].ids[1] # args[p].ids[2]
    /\ IdsOf(args[p].ids) \subseteq DOMAIN store

RollbackThenClassify ==
  \A p \in Procs :
    op[p] \in {"create", "update"} =>
      /\ pc[p] = "handleUniqueFieldError" => tx[p] = "rolled-back"
      /\ Threw(p) =>
           /\ tx[p] = "rolled-back"
           /\ error[p] # NoError
           /\ error[p].kind = "SequelizeUniqueConstraintError" =>
                thrown[p] = Error400(<<"entities", "visitor", "errors", "unique">> \o error[p].key)
           /\ error[p].kind # "SequelizeUniqueConstraintError" => thrown[p] = error[p]

\* a create has run into the unique field of another row and has thrown
\* Error400, and an update has thrown the database error it caught
RollbackThenClassifyWitness ==
  /\ \E p \in Procs :
       /\ op[p] = "create" /\ Threw(p)
       /\ error[p] = UniqueConstraintError("uniqueField")
       /\ thrown[p].kind = "Error400"
  /\ \E p \in Procs :
       op[p] = "update" /\ Threw(p) /\ thrown[p] = DatabaseError

\* C5: a create whose insert and commit succeeded has returned the persisted
\* row and its transaction stays committed, whether the notification is
\* delivered or not.
NotificationNeverAffectsCreate ==
  \A p \in Procs :
    (op[p] \in {"create", "import"} /\ tx[p] = "committed") =>
      /\ Done(p)
      /\ thrown[p] = NoError
      /\ returned[p] = record[p]
      /\ returned[p].id = args[p].newId
      /\ ~txLate[p]

\* a create has returned its row, the row is in the store, and the delivery of
\* every notification sent so far has failed
NotificationWitness ==
  \E p \in Procs :
    /\ op[p] = "create" /\ Done(p) /\ tx[p] = "committed"
    /\ returned[p].id \in DOMAIN store
    /\ Len(sdpSent) > 0
    /\ sdpFailed = Len(sdpSent)

\* C6: no persistence call, commit or rollback is issued against a transaction
\* that is committed or rolled back.
TerminalStatesAreFinal == \A p \in Procs : ~txLate[p]

\* a signup has committed and returned, and a signin has rolled back and thrown
TerminalStatesWitness ==
  /\ \E p \in Procs : op[p] = "signup" /\ Done(p) /\ tx[p] = "committed"
  /\ \E p \in Procs : op[p] = "signin" /\ Threw(p) /\ tx[p] = "rolled-back"

\* C7: a signup or signin that throws has rolled its transaction back, and the
\* writes of the transaction are gone.
AuthRollsBackBeforeThrow ==
  \A p \in Procs :
    (op[p] \in {"signup", "signin"} /\ Threw(p)) =>
      /\ txOpened[p] = 1
      /\ tx[p] = "rolled-back"
      /\ pending[p] = <<>>
      /\ thrown[p] = error[p]

\* a signup has failed in handleOnboard after it wrote the password, and a
\* signin has failed for an unknown user
AuthRollbackWitness ==
  /\ \E p \in Procs :
       op[p] = "signup" /\ Threw(p) /\ thrown[p] = TenantError /\ tx[p] = "rolled-back"
  /\ \E p \in Procs :
       op[p] = "signin" /\ Threw(p) /\ thrown[p] = Error400(<<"auth", "userNotFound">>)

\* the credentials of signin p hold: the user exists, has a password, and the
\* submitted password matches it
CredentialsHold(p) ==
  LET u == FindByEmailRow(args[p].email)
  IN /\ u # NoUser
     /\ u.password # NoPassword
     /\ BcryptCompare(args[p].password, u.password)

\* C8: two signin calls that fail one of the three credential checks throw the
\* same error.
SigninErrorIsUniform ==
  \A p, q \in Procs :
    ( /\ op[p] = "signin" /\ Threw(p) /\ ~CredentialsHold(p)
      /\ op[q] = "signin" /\ Threw(q) /\ ~CredentialsHold(q)
      /\ thrown[p].kind = "Error400" /\ thrown[q].kind = "Error400" )
    => thrown[p] = thrown[q]

\* C9: a signin that has a token, or that has taken an onboarding step, has
\* passed the three credential checks, and its token is signed over the id of
\* the user and nothing else.
SigninTokenOnlyForCredentials ==
  \A p \in Procs :
    op[p] = "signin" =>
      /\ (token[p] # NoToken \/ steps[p] # <<>>) => CredentialsHold(p)
      /\ token[p] # NoToken =>
           token[p] = JwtSign([id |-> FindByEmailRow(args[p].email).id])
      /\ Threw(p) => token[p] = NoToken

\* a signin has returned a token after onboarding, and another has failed on
\* a wrong password
SigninTokenWitness ==
  /\ \E p \in Procs :
       op[p] = "signin" /\ Done(p) /\ token[p] # NoToken /\ steps[p] # <<>>
  /\ \E p \in Procs :
       /\ op[p] = "signin" /\ Threw(p)
       /\ FindByEmailRow(args[p].email).password # NoPassword
       /\ thrown[p] = Error400(<<"auth", "wrongPassword">>)

\* C10: an import with a null, undefined or empty import hash has thrown
\* Error400 'importer.errors.importHashRequired' when the call is left, with no
\* transaction opened, and the step leaves the store and the notifications as
\* they were.
ImportHashRequiredFirst ==
  [][\A p \in Procs :
       (op'[p] = "import" /\ Falsy(args'[p].importHash)) =>
         /\ pc'[p] = "done"
         /\ thrown'[p] = Error400(importHashRequired)
         /\ txOpened'[p] = 0
         /\ tx'[p] = "none"
         /\ returned'[p] = NoRow
         /\ Moves(p) => (store' = store /\ sdpSent' = sdpSent)]_vars

\* imports with each of the three absent hashes have failed, with different data
ImportHashRequiredWitness ==
  \E p, q \in Procs :
    /\ op[p] = "import" /\ op[q] = "import"
    /\ Done(p) /\ Done(q)
    /\ args[p].importHash = JsNull
    /\ args[q].importHash \in {JsUndefined, EmptyString}
    /\ args[p].data # args[q].data
    /\ thrown[p] = Error400(importHashRequired)
    /\ thrown[q] = Error400(importHashRequired)

\* request p has imported with success
Imported(p) == op[p] = "import" /\ Done(p) /\ thrown[p] = NoError /\ tx[p] = "committed"

UpdateOfMissingIdFails ==
  [][\A p \in Procs :
       (op[p] = "update" /\ op'[p] = "update") =>
         /\ (pc[p] = "update" /\ pc'[p] # "update" /\ args[p].id \notin DOMAIN store) =>
              /\ pc'[p] = "rollback"
              /\ error'[p] \in {Error404, DatabaseError}
              /\ pending'[p] = <<>>
         /\ (pc[p] = "update" /\ error'[p] = Error404) => args[p].id \notin DOMAIN store
         /\ (pc'[p] = "done" /\ error'[p] = Error404) =>
              /\ thrown'[p] = Error404
              /\ returned'[p] = NoRow
              /\ tx'[p] = "rolled-back"
              /\ pending'[p] = <<>>
         /\ (Moves(p) /\ error'[p] = Error404) => store' = store]_vars

\* an update of an id that is not in the store has thrown Error404, rolled
\* back, while the other request has added a row
UpdateOfMissingIdWitness ==
  \E p \in Procs :
    /\ op[p] = "update" /\ Threw(p)
    /\ args[p].id \notin DOMAIN store
    /\ thrown[p] = Error404
    /\ tx[p] = "rolled-back"
    /\ DOMAIN store # DOMAIN InitialStore

\* C13: of two finished create calls with the same value of the unique field
\* at most one has succeeded; the other has thrown, as Error400 on the unique
\* field unless the database itself failed, and has added no row, and the row
\* of the first is in the store as create returned it.
DuplicateUniqueCreateFails ==
  \A p, q \in Procs :
    ( /\ p # q
      /\ op[p] = "create" /\ op[q] = "create"
      /\ Done(p) /\ Done(q)
      /\ args[p].data.uniqueField = args[q].data.uniqueField
      /\ thrown[p] = NoError )
    => /\ thrown[q] \in {Error400(<<"entities", "visitor", "errors", "unique", "uniqueField">>),
                         DatabaseError}
       /\ error[q].kind = "SequelizeUniqueConstraintError" => thrown[q].kind = "Error400"
       /\ returned[q] = NoRow
       /\ tx[q] = "rolled-back"
       /\ args[q].newId \notin DOMAIN store
       /\ args[p].newId \in DOMAIN store
       /\ store[args[p].newId] = returned[p]
       /\ returned[p].uniqueField = args[p].data.uniqueField

\* two creates with the same unique value were in flight together: both
\* inserted, one committed, the other failed at its commit with Error400
DuplicateUniqueCreateWitness ==
  \E p, q \in Procs :
    /\ p # q
    /\ op[p] = "create" /\ op[q] = "create"
    /\ args[p].data.uniqueField = args[q].data.uniqueField
    /\ Done(p) /\ thrown[p] = NoError
    /\ Done(q) /\ record[q] # NoRow
    /\ error[q] = UniqueConstraintError("uniqueField")
    /\ thrown[q] = Error400(<<"entities", "visitor", "errors", "unique", "uniqueField">>)

\* C14: a findById that reads the id a successful create has returned yields a
\* row that holds every field of the data given to create with the same value,
\* the id create generated, which no row had before, and the two timestamps.
CreateThenFindByIdRoundTrip ==
  [][\A p, q \in Procs :
       ( /\ p # q
         /\ op[p] = "create" /\ Done(p) /\ thrown[p] = NoError
         /\ pc[q] = "findById" /\ pc'[q] = "done" /\ thrown'[q] = NoError
         /\ args[q].id = returned[p].id )
       => LET r == returned'[q]
              data == args[p].data
          IN /\ \A f \in DOMAIN data : r[f] = data[f]
             /\ r.id = args[p].newId
             /\ r.id \notin DOMAIN InitialStore
             /\ r.createdAt = Now /\ r.updatedAt = Now
             /\ DOMAIN r = DOMAIN data \cup {"id", "createdAt", "updatedAt"}
             /\ r = returned[p]]_vars

\* a create with an import hash in its data has returned, and a findById of
\* the returned id has returned its row
CreateThenFindByIdWitness ==
  \E p, q \in Procs :
    /\ op[p] = "create" /\ Done(p) /\ thrown[p] = NoError
    /\ args[p].data.importHash = "H1"
    /\ op[q] = "findById" /\ Done(q) /\ thrown[q] = NoError
    /\ args[q].id = returned[p].id
    /\ returned[q] # NoRow

\* the number of notifications sent for the row with id i
Notified(sent, i) == Cardinality({k \in DOMAIN sent : sent[k] = i})

\* C15: a notification is sent only in the step in which a create commits and
\* returns, for the row it returns; a finished create has one notification if
\* it succeeded and none if it threw; nothing else sends one.
NotifiedOnceAfterCommit ==
  [][/\ sdpSent' # sdpSent =>
          \E p \in Procs :
            /\ op[p] \in {"create", "import"}
            /\ tx[p] = "open" /\ tx'[p] = "committed"
            /\ pc'[p] = "done" /\ thrown'[p] = NoError
            /\ returned'[p].id \in DOMAIN store'
            /\ sdpSent' = Append(sdpSent, returned'[p].id)
     /\ \A p \in Procs :
          (op'[p] \in {"create", "import"} /\ pc'[p] = "done") =>
            Notified(sdpSent', args'[p].newId) = IF thrown'[p] = NoError THEN 1 ELSE 0
     /\ \A p \in Procs :
          (op'[p] \in {"create", "import"} /\ pc'[p] # "done") =>
            Notified(sdpSent', args'[p].newId) = 0
     /\ Len(sdpSent') =
          Cardinality({p \in Procs : op'[p] \in {"create", "import"}
                                       /\ tx'[p] = "committed"})]_vars

\* a create has succeeded and its row is the one notification sent; another
\* create has inserted, failed at its commit, and has sent none
NotifiedOnceWitness ==
  \E p, q \in Procs :
    /\ op[p] = "create" /\ Done(p) /\ thrown[p] = NoError
    /\ sdpSent = <<args[p].newId>>
    /\ op[q] = "create" /\ Threw(q) /\ record[q] # NoRow

Reads == {"findById", "findAllAutocomplete", "findAndCountAll"}

\* no row of the store matches what read p asks for
NoRowMatches(p) ==
  CASE op[p] = "findById" -> args[p].id \notin DOMAIN store
    [] op[p] = "findAllAutocomplete" ->
         /\ args[p].search # JsUndefined
         /\ \A i \in DOMAIN store : store[i].uniqueField # args[p].search
    [] op[p] = "findAndCountAll" ->
         /\ args[p].filter # JsUndefined
         /\ \A i \in DOMAIN store : store[i].importHash # args[p].filter
    [] OTHER -> FALSE

\* the empty result of read p: null, no entry, no row and the count 0
EmptyResult(p) ==
  CASE op[p] = "findById" -> NoRow
    [] op[p] = "findAllAutocomplete" -> [items |-> <<>>]
    [] OTHER -> [rows |-> <<>>, count |-> 0]

\* C16: a read has no transaction and buffers nothing, its steps leave the
\* store, the id counter and the notifications as they are, it throws nothing
\* but a failure of the database, and when it reads while no row matches it
\* returns the empty result.
ReadsAreReadOnly ==
  [][\A p \in Procs :
       op'[p] \in Reads =>
         /\ tx'[p] = "none" /\ txOpened'[p] = 0 /\ pending'[p] = <<>>
         /\ thrown'[p] \in {NoError, DatabaseError}
         /\ Moves(p) => store' = store /\ sdpSent' = sdpSent
         /\ (op[p] \in Reads /\ Moves(p)) => nextId' = nextId
         /\ (op[p] \in Reads /\ pc[p] # "done" /\ pc'[p] = "done"
               /\ thrown'[p] = NoError /\ NoRowMatches(p)) =>
              returned'[p] = EmptyResult(p)]_vars

\* one of each read has returned its empty result while a row was in the store
ReadsWitness ==
  \E p, q \in Procs :
    /\ store # <<>>
    /\ op[p] = "findById" /\ Done(p) /\ thrown[p] = NoError
    /\ NoRowMatches(p) /\ returned[p] = NoRow
    /\ op[q] \in {"findAllAutocomplete", "findAndCountAll"}
    /\ Done(q) /\ thrown[q] = NoError
    /\ NoRowMatches(q) /\ returned[q] = EmptyResult(q)

\* the deletions of the first n ids of destroyAll p, in the order of ids
Issued(p, n) == [k \in 1 .. n |-> Destroy(args[p].ids[k])]

\* C17: while the transaction of destroyAll(ids) is open it holds the
\* deletions of ids[1 .. idx-1] in that order and nothing else; a step adds
\* the deletion of ids[idx] or ends the transaction; once a deletion has failed
\* none is added; it opens one transaction, and commits only when all of ids
\* are in it, which for an empty ids is an empty transaction.
DestroyAllInOrder ==
  [][\A p \in Procs :
       (op[p] = "destroyAll" /\ op'[p] = "destroyAll") =>
         /\ txOpened'[p] <= 1
         /\ idx'[p] <= Len(args[p].ids) + 1
         /\ tx'[p] = "open" => pending'[p] = Issued(p, idx'[p] - 1)
         /\ pending'[p] # pending[p] =>
              \/ /\ pc[p] = "destroy" /\ error[p] = NoError /\ tx[p] = "open"
                 /\ idx[p] <= Len(args[p].ids)
                 /\ pending'[p] = Append(pending[p], Destroy(args[p].ids[idx[p]]))
                 /\ idx'[p] = idx[p] + 1
              \/ pending'[p] = <<>> /\ tx'[p] \in Terminal
         /\ error[p] # NoError =>
              /\ idx'[p] = idx[p]
              /\ pending'[p] \in {pending[p], <<>>}
              /\ tx'[p] # "committed"
         /\ (tx[p] = "open" /\ tx'[p] = "committed") =>
              /\ idx[p] = Len(args[p].ids) + 1
              /\ pending[p] = Issued(p, Len(args[p].ids))
              /\ store' = ApplyWrites(store, pending[p])]_vars

\* a destroyAll of no id has committed, and a destroyAll of two ids has failed
\* at the first and has rolled back without going on to the second
DestroyAllInOrderWitness ==
  \E p, q \in Procs :
    /\ op[p] = "destroyAll" /\ args[p].ids = <<>>
    /\ Done(p) /\ tx[p] = "committed" /\ thrown[p] = NoError
    /\ op[q] = "destroyAll" /\ Len(args[q].ids) = 2
    /\ Threw(q) /\ idx[q] = 1 /\ tx[q] = "rolled-back"
    /\ args[q].ids[2] \in DOMAIN store

\* C20: a findByToken whose token is malformed, carries another signature or
\* has expired has rejected with the error of the verification when the call
\* is left: it never stands at the user lookup, has looked nothing up and has
\* resolved to no user.
FindByTokenFailsClosed ==
  \A p \in Procs :
    (op[p] = "findByToken" /\ JwtVerify(args[p]) # NoError) =>
      /\ pc[p] = "done"
      /\ thrown[p] = JwtVerify(args[p])
      /\ thrown[p].kind \in {"JsonWebTokenError", "TokenExpiredError"}
      /\ steps[p] = <<>>
      /\ user[p] = NoUser
      /\ tx[p] = "none"

\* an expired token of the known user and a token of that user with another
\* signature were rejected, each with its own verification error
FindByTokenWitness ==
  \E p, q \in Procs :
    /\ op[p] = "findByToken" /\ op[q] = "findByToken"
    /\ Done(p) /\ Done(q)
    /\ args[p].token = JwtSign([id |-> 2]) /\ ~args[p].malformed /\ args[p].expired
    /\ thrown[p] = TokenExpiredError
    /\ ~args[q].token.signed /\ ~args[q].malformed /\ ~args[q].expired
    /\ thrown[q] = JsonWebTokenError("invalid signature")

\* C19: a rollback of a unit of work that is rolled back already, the first
\* call issued against it since, throws nothing, leaves the unit rolled back
\* and empty, and leaves the store, the users and the memberships as they are.
RollbackIsIdempotent ==
  [][\A p \in Procs :
       (op[p] = "unitOfWork" /\ tx[p] = "rolled-back" /\ ~txLate[p] /\ txLate'[p]) =>
         /\ tx'[p] = "rolled-back"
         /\ pending'[p] = <<>>
         /\ thrown'[p] = NoError
         /\ store' = store
         /\ users' = users
         /\ members' = members]_vars

\* a unit of work was rolled back twice while the unit of the other caller,
\* which wrote to the store, is committed
RollbackTwiceWitness ==
  \E p, q \in Procs :
    /\ op[p] = "unitOfWork" /\ tx[p] = "rolled-back" /\ txLate[p]
    /\ op[q] = "unitOfWork" /\ tx[q] = "committed"
    /\ store # InitialStore

\* C18: under the fairness of the event loop, a create, update, destroyAll,
\* signup or signin whose transaction is open leads to a state in which the
\* transaction is committed or rolled back and the call has returned or thrown.
RunsToCompletion ==
  \A p \in Procs :
    (tx[p] = "open" /\ op[p] \in {"create", "import", "update", "destroyAll",
                                  "signup", "signin"})
      ~> (tx[p] \in Terminal /\ Done(p))

\* a destroyAll of two ids and a signup that onboarded have run to completion
RunsToCompletionWitness ==
  \/ \E p \in Procs :
       /\ op[p] = "destroyAll" /\ Len(args[p].ids) = 2
       /\ Done(p) /\ tx[p] = "committed"
  \/ \E p \in Procs :
       /\ op[p] = "signup" /\ steps[p] # <<>>
       /\ Done(p) /\ tx[p] = "committed"

\* the tenant steps request p has taken, in order, without acceptInvitation
TenantSteps(p) == SelectSeq(steps[p], LAMBDA s : s[1] # "acceptInvitation")

\* the tenant steps the tenant mode and the tenantId of request p call for
ExpectedTenantSteps(p) ==
  IF config.TENANT_MODE \in {"multi", "multi-with-subdomain"} /\ ~Falsy(args[p].tenantId)
    THEN <<"joinWithDefaultRolesOrAskApproval">>
  ELSE IF config.TENANT_MODE = "single"
    THEN <<"joinDefaultUsingInvitedEmail", "createOrJoinDefault">>
  ELSE <<>>

\* C21: the tenant steps of a signup or signin are, in order, those its tenant
\* mode calls for: the join of the given tenant in a multi mode with a
\* tenantId, joinDefaultUsingInvitedEmail and then createOrJoinDefault in mode
\* single, and none otherwise. Only the last step taken may have failed, a
\* call that reaches the commit has taken them all, and every step that
\* succeeded wrote a membership with role visitor, for the given tenant in a
\* multi mode.
OnboardFollowsTenantMode ==
  \A p \in Procs :
    op[p] \in {"signup", "signin"} =>
      LET taken == TenantSteps(p)
          expected == ExpectedTenantSteps(p)
      IN /\ Len(taken) <= Len(expected)
         /\ \A k \in DOMAIN taken :
              /\ taken[k][1] = expected[k]
              /\ k < Len(taken) => taken[k][2] = "ok"
              /\ (taken[k][2] = "ok" /\ tx[p] = "open") =>
                   [userId |-> user[p].id,
                    tenantId |-> IF config.TENANT_MODE = "single"
                                   THEN "default" ELSE args[p].tenantId,
                    role |-> "visitor", via |-> expected[k]] \in MembersView(p)
         /\ (pc[p] = "commit" \/ (Done(p) /\ thrown[p] = NoError)) =>
              /\ Len(taken) = Len(expected)
              /\ \A k \in DOMAIN taken : taken[k][2] = "ok"

\* a sign in in a multi mode with a tenantId and an invitation token has
\* accepted the invitation and joined the tenant, and is committed
OnboardMultiWitness ==
  \E p \in Procs :
    /\ op[p] = "signin" /\ Done(p) /\ tx[p] = "committed"
    /\ config.TENANT_MODE = "multi-with-subdomain"
    /\ args[p].tenantId = "t1"
    /\ steps[p] = <<<<"acceptInvitation", "ok">>,
                    <<"joinWithDefaultRolesOrAskApproval", "ok">>>>

\* C22: an import that passes both guards hands to create its data with the
\* import hash replaced by the one given to import, and opens no transaction
\* of its own; it then opens one transaction and inserts at most one row, and
\* when it commits the store gains exactly the row of the new id, whose
\* importHash is the given one and whose other fields are those of data.
ImportCreatesOneRecordWithHash ==
  [][\A p \in Procs :
       (op[p] = "import" /\ op'[p] = "import") =>
         /\ (pc[p] = "count" /\ pc'[p] # "count" /\ thrown'[p] = NoError) =>
              /\ pc'[p] = "createTransaction"
              /\ txOpened'[p] = 0
              /\ args'[p].data = [args[p].importData EXCEPT !.importHash = args[p].importHash]
         /\ txOpened'[p] <= 1
         /\ Len(pending'[p]) <= 1
         /\ (tx[p] = "open" /\ tx'[p] = "committed") =>
              /\ DOMAIN store' = DOMAIN store \cup {args[p].newId}
              /\ args[p].newId \notin DOMAIN store
              /\ \A i \in DOMAIN store : store'[i] = store[i]
              /\ store'[args[p].newId].importHash = args[p].importHash
              /\ store'[args[p].newId].uniqueField = args[p].importData.uniqueField
              /\ returned'[p] = store'[args[p].newId]]_vars

\* an import whose data carried the import hash H1 was given the hash H2 and
\* is committed: the row it created is in the store with H2
ImportCreatesOneRecordWitness ==
  \E p \in Procs :
    /\ Imported(p)
    /\ args[p].importData.importHash = "H1"
    /\ args[p].importHash = "H2"
    /\ args[p].newId \in DOMAIN store
    /\ store[args[p].newId].importHash = "H2"
    /\ returned[p].importHash = "H2"

\* the acceptance of the invitation of request p has failed
InvitationFailed(p) ==
  /\ op[p] \in {"signup", "signin"}
  /\ \E k \in DOMAIN steps[p] : steps[p][k] = <<"acceptInvitation", "failed">>

\* C23: when acceptInvitation fails, the call goes on with the first tenant
\* step of its tenant mode, or with the commit when there is none, with no
\* error caught and its transaction open; if it fails later, the error is
\* that of a tenant step or of the commit; and when it has taken all its
\* tenant steps with success and the commit succeeds, it returns its token.
InvitationFailureDoesNotPrevent ==
  [][\A p \in Procs :
       /\ (InvitationFailed(p)' /\ ~InvitationFailed(p)) =>
            /\ pc'[p] = IF ExpectedTenantSteps(p) = <<>> THEN "commit"
                        ELSE ExpectedTenantSteps(p)[1]
            /\ error'[p] = NoError
            /\ tx'[p] = "open"
            /\ pending'[p] = pending[p]
       /\ InvitationFailed(p)' =>
            /\ error'[p] \in {NoError, TenantError, DatabaseError,
                              UniqueConstraintError("email")}
            /\ error'[p] = TenantError =>
                 TenantSteps(p)'[Len(TenantSteps(p)')][2] = "failed"
       /\ (InvitationFailed(p) /\ tx[p] = "open" /\ tx'[p] = "committed") =>
            /\ pc'[p] = "done"
            /\ thrown'[p] = NoError
            /\ token'[p] = JwtSign([id |-> user[p].id])
            /\ Len(TenantSteps(p)) = Len(ExpectedTenantSteps(p))]_vars

\* a sign up of a new user in mode single whose invitation could not be
\* accepted has taken both tenant steps, is committed and returned its token
InvitationFailureWitness ==
  \E p \in Procs :
    /\ op[p] = "signup" /\ Done(p) /\ tx[p] = "committed"
    /\ args[p].email = "new@x"
    /\ steps[p] = <<<<"acceptInvitation", "failed">>,
                    <<"joinDefaultUsingInvitedEmail", "ok">>,
                    <<"createOrJoinDefault", "ok">>>>
    /\ token[p] = JwtSign([id |-> user[p].id])
    /\ user[p].id \in DOMAIN users

emailAlreadyInUse == Error400(<<"auth", "emailAlreadyInUse">>)

\* a user with a stored password has the email
SignedUp(email) ==
  \E i \in DOMAIN users : users[i].email = email /\ users[i].password # NoPassword

\* C24: a sign up with the email of a user that has a stored password finds
\* that user and catches Error400 auth.emailAlreadyInUse when it reads the
\* password (or catches the failure of the database itself), with nothing
\* written in its transaction; a sign up that caught emailAlreadyInUse throws
\* it with its transaction rolled back and no token, and none of its steps
\* changes the users or the tenant memberships.
SignupOfSignedUpEmailFails ==
  [][\A p \in Procs :
       (op[p] = "signup" /\ op'[p] = "signup" /\ pc'[p] # pc[p]) =>
         /\ (pc[p] = "findByEmail" /\ SignedUp(args[p].email)) =>
              \/ /\ pc'[p] = "findPassword"
                 /\ user'[p].email = args[p].email
                 /\ user'[p].password # NoPassword
              \/ pc'[p] = "rollback" /\ error'[p] = DatabaseError
         /\ (pc[p] = "findPassword" /\ users[user[p].id].password # NoPassword) =>
              /\ pc'[p] = "rollback"
              /\ error'[p] \in {emailAlreadyInUse, DatabaseError}
              /\ pending'[p] = <<>>
         /\ error'[p] = emailAlreadyInUse =>
              /\ users[user[p].id].password # NoPassword
              /\ users' = users
              /\ members' = members
              /\ token'[p] = NoToken
              /\ pc'[p] = "done" =>
                   /\ thrown'[p] = emailAlreadyInUse
                   /\ tx'[p] = "rolled-back"
                   /\ pending'[p] = <<>>]_vars

\* a sign up with the email of the known user and another password has
\* thrown emailAlreadyInUse; the user has the first password and the first
\* membership
SignupOfSignedUpEmailWitness ==
  \E p \in Procs :
    /\ op[p] = "signup" /\ Done(p)
    /\ args[p].email = "known@x" /\ args[p].password = "pw2"
    /\ thrown[p] = emailAlreadyInUse
    /\ tx[p] = "rolled-back"
    /\ token[p] = NoToken
    /\ users[2].password = BcryptHash("pw1")
    /\ members = InitialMembers

\* C25: a step of a sign up changes the users or the tenant memberships only
\* when it commits, and it then applies all the writes of the sign up (the
\* new user or the new password, and the memberships) and returns; a sign up
\* that throws has its transaction rolled back with nothing buffered, leaves
\* the users and memberships as they were, and a user it created is not
\* among the users.
SignupIsAllOrNothing ==
  [][\A p \in Procs :
       (op[p] = "signup" /\ op'[p] = "signup" /\ pc'[p] # pc[p]) =>
         /\ (users' # users \/ members' # members) =>
              /\ tx[p] = "open" /\ tx'[p] = "committed"
              /\ users' = UsersView(p)
              /\ members' = MembersView(p)
              /\ pc'[p] = "done"
              /\ thrown'[p] = NoError
              /\ token'[p] = JwtSign([id |-> user[p].id])
         /\ (pc'[p] = "done" /\ thrown'[p] # NoError) =>
              /\ tx'[p] = "rolled-back"
              /\ pending'[p] = <<>>
              /\ users' = users
              /\ members' = members
              /\ token'[p] = NoToken
              /\ \A k \in DOMAIN pending[p] :
                   pending[p][k].t = "createFromAuth" =>
                     pending[p][k].id \notin DOMAIN users']_vars

\* a sign up of the invited user wrote the password, accepted the invitation
\* and joined, then failed in createOrJoinDefault: it has thrown, and the
\* users and memberships are those of the start
SignupAllOrNothingWitness ==
  \E p \in Procs :
    /\ op[p] = "signup" /\ Done(p)
    /\ args[p].email = "invited@x"
    /\ thrown[p] = TenantError
    /\ steps[p] = <<<<"acceptInvitation", "ok">>,
                    <<"joinDefaultUsingInvitedEmail", "ok">>,
                    <<"createOrJoinDefault", "failed">>>>
    /\ tx[p] = "rolled-back"
    /\ users = InitialUsers
    /\ members = InitialMembers

\* C26: a sign up or sign in has returned a token only when its transaction
\* is committed, and the token then carries the id of its user; when the
\* commit fails the call goes to the catch block with the error of the commit
\* and without a token, and it then throws that error with the transaction
\* rolled back and no token returned.
TokenOnlyAfterCommit ==
  [][\A p \in Procs :
       op'[p] \in {"signup", "signin"} =>
         /\ token'[p] # NoToken =>
              /\ tx'[p] = "committed"
              /\ pc'[p] = "done"
              /\ thrown'[p] = NoError
              /\ token'[p] = JwtSign([id |-> user'[p].id])
         /\ (pc[p] = "commit" /\ pc'[p] # "commit" /\ tx'[p] # "committed") =>
              /\ pc'[p] = "rollback"
              /\ error'[p] \in CommitFailure(p)
              /\ tx'[p] = "open"
              /\ token'[p] = NoToken
         /\ (pc[p] = "rollback" /\ pc'[p] = "done") =>
              /\ tx'[p] = "rolled-back"
              /\ thrown'[p] = error[p]
              /\ thrown'[p] # NoError
              /\ token'[p] = NoToken]_vars

\* a sign in with the right password in mode single took both tenant steps
\* and then failed in the commit: it has thrown the error of the database,
\* its transaction is rolled back and no token is returned
CommitFailureNoTokenWitness ==
  \E p \in Procs :
    /\ op[p] = "signin" /\ Done(p)
    /\ steps[p] = <<<<"joinDefaultUsingInvitedEmail", "ok">>,
                    <<"createOrJoinDefault", "ok">>>>
    /\ thrown[p] = DatabaseError
    /\ tx[p] = "rolled-back"
    /\ token[p] = NoToken
    /\ members = InitialMembers

\* request p is a sign up with the email of a user that was invited: the user
\* had a row without a stored password at the start
InvitedSignup(p) ==
  /\ op[p] = "signup"
  /\ \E i \in DOMAIN InitialUsers :
       /\ InitialUsers[i].email = args[p].email
       /\ InitialUsers[i].password = NoPassword

\* C27: of two sign ups with the email of the same invited user at most one
\* has returned a token, and when a sign up of an invited user has returned a
\* token the stored password of the user is the one given to that call.
InvitedSignupSetsPasswordOnce ==
  \A p \in Procs :
    (InvitedSignup(p) /\ token[p] # NoToken) =>
      /\ users[user[p].id].password = BcryptHash(args[p].password)
      /\ \A q \in Procs \ {p} :
           (InvitedSignup(q) /\ args[q].email = args[p].email) => token[q] = NoToken

=============================================================================
